---- MODULE Spec2Model ----
(***************************************************************************)
(* A model of invoice2SAPdata: the provider parsers (Mobifone, Viettel,    *)
(* VNPT), their number normalizer, the line deduplicator, the parser       *)
(* registry, the text extractor and the batch loop of the application.     *)
(*                                                                         *)
(* Text is a sequence of symbols, one per character: an ASCII character   *)
(* is its own symbol, "nl" is the line feed, "nbsp" the non-breaking space *)
(* U+00A0, and "uXXXX" the character of that code point (the letters with  *)
(* diacritics of the Vietnamese labels, in NFC as the source writes them). *)
(* A float whose value is a whole number is that integer.                  *)
(***************************************************************************)
EXTENDS Integers, Sequences, FiniteSets, TLC

VARIABLES
    token,          \* the raw token handed to the three _parse_number functions
    num_mobifone,   \* MobifoneInvoiceParser._parse_number(token), or NotCalled
    num_viettel,    \* ViettelInvoiceParser._parse_number(token), or NotCalled
    num_vnpt,       \* VNPTInvoiceParser._parse_number(token), or NotCalled
    provider_name,  \* the provider name handed to the two get_parser functions
    gp,             \* outcome of get_parser of the package (src/__init__.py)
    gp_ip,          \* outcome of get_parser of the invoice_parsers package
    imported,       \* the modules import_module has loaded (sys.modules)
    pdf_text,       \* the text extract_text returned for the document
    call,           \* the parse_pdf call made on it, and its outcome
    selected,       \* main: provider, the option chosen in the select box
    uploaded_files, \* main: the uploaded PDF files, in upload order
    parser_module,  \* main: the module get_parser returned
    pc,             \* main: where the handler of the button stands
    file_index,     \* main: the place in uploaded_files of the loop's file
    invoices,       \* main: the invoices collected so far
    st,             \* the warnings and errors shown on the page, in order
    tmp_files,      \* the temporary PDF files that exist on disk
    log,            \* the records pdf_utils has logged, in order
    open_docs,      \* the paths of the documents fitz holds open
    ledger_invoices,\* invoices_to_ledger_rows: invoices, the parsed invoices
    document_date,  \* invoices_to_ledger_rows: the default posting date, or None
    today,          \* what date.today().isoformat() gives during the call
    invoice_pos,    \* the place in invoices of the loop's invoice
    ledger_rows     \* invoices_to_ledger_rows: rows, the ledger rows so far

numVars == <<token, num_mobifone, num_viettel, num_vnpt>>
regVars == <<provider_name, gp, gp_ip, imported>>
parseVars == <<pdf_text, call>>
batchVars == <<selected, uploaded_files, parser_module, pc, file_index, invoices, st,
               tmp_files, log, open_docs>>
transformVars == <<ledger_invoices, document_date, today, invoice_pos, ledger_rows>>
vars == <<numVars, regVars, parseVars, batchVars, transformVars>>

(***************************************************************************)
(* Bounds of the model.                                                    *)
(***************************************************************************)
MaxTokenLen == 3    \* raw tokens over the whole alphabet
MaxNumLen == 5      \* tokens composed only of digits, '.' and ','
MaxPad == 1         \* white space on either side of a provider name
MaxUpper == 2       \* upper-case letters in a provider name (or all of them)
MaxRows == 3        \* charge rows after the full header, or after none
MaxInvoices == 2    \* invoices handed to invoices_to_ledger_rows in one call
MaxFiles == 3       \* uploaded files in one batch
MaxHeaderRows == 1  \* charge rows after any other header

(***************************************************************************)
(* Alphabet.                                                               *)
(***************************************************************************)
DigitChar == <<"0", "1", "2", "3", "4", "5", "6", "7", "8", "9">>
Digits == {DigitChar[i] : i \in 1..10}
DigitVal == [c \in Digits |-> (CHOOSE i \in 1..10 : DigitChar[i] = c) - 1]
\* "nbsp" is U+00A0, "nl" the newline; "x" is any character that is no part
\* of a number.  A character outside ASCII is named by its code point.
TokenChars == {"0", "1", "2", ".", ",", " ", "nbsp", "nl", "-", "x"}
NumericChars == {"0", "1", ".", ","}
\* str.isspace() holds of the space, the newline and the non-breaking space.
Whitespace == {" ", "nbsp", "nl"}

ToUpperAZ ==
    [a |-> "A", b |-> "B", c |-> "C", d |-> "D", e |-> "E", f |-> "F", g |-> "G",
     h |-> "H", i |-> "I", j |-> "J", k |-> "K", l |-> "L", m |-> "M", n |-> "N",
     o |-> "O", p |-> "P", q |-> "Q", r |-> "R", s |-> "S", t |-> "T", u |-> "U",
     v |-> "V", w |-> "W", x |-> "X", y |-> "Y", z |-> "Z"]

SeqsUpTo(S, n) == UNION {[1..k -> S] : k \in 0..n}

(***************************************************************************)
(* Python string primitives.                                               *)
(***************************************************************************)
RECURSIVE Replace(_, _, _)
\* str.replace(old, new) for a one-character old and a string new
Replace(s, old, new) ==
    IF s = <<>> THEN <<>>
    ELSE (IF Head(s) = old THEN new ELSE <<Head(s)>>) \o Replace(Tail(s), old, new)

RECURSIVE LStrip(_)
LStrip(s) ==
    IF s # <<>> /\ Head(s) \in Whitespace THEN LStrip(Tail(s)) ELSE s

RECURSIVE RStrip(_)
RStrip(s) ==
    IF s # <<>> /\ s[Len(s)] \in Whitespace THEN RStrip(SubSeq(s, 1, Len(s) - 1)) ELSE s

\* str.strip()
Strip(s) == RStrip(LStrip(s))

RECURSIVE DigitsValue(_)
\* the number a string of digits denotes
DigitsValue(s) ==
    IF s = <<>> THEN 0
    ELSE 10 * DigitsValue(SubSeq(s, 1, Len(s) - 1)) + DigitVal[s[Len(s)]]

AllIn(s, S) == \A i \in 1..Len(s) : s[i] \in S

RECURSIVE DropTrailingZeros(_)
DropTrailingZeros(s) ==
    IF s # <<>> /\ s[Len(s)] = "0" THEN DropTrailingZeros(SubSeq(s, 1, Len(s) - 1)) ELSE s

(***************************************************************************)
(* float(str).  The literal may be surrounded by white space and may have  *)
(* a sign; it needs one digit at least and may hold one '.'.  Anything     *)
(* else raises ValueError (ok = FALSE).  The value of a literal with no    *)
(* fraction is an integer; a literal with a fraction keeps its whole part  *)
(* and its fraction digits.                                                *)
(***************************************************************************)
\* the value of the literal body, which carries no sign and no white space
FloatLiteral(body, sign) ==
    LET dots == {i \in 1..Len(body) : body[i] = "."}
        dot == IF dots = {} THEN Len(body) + 1 ELSE CHOOSE i \in dots : TRUE
        whole == SubSeq(body, 1, dot - 1)
        frac == DropTrailingZeros(SubSeq(body, dot + 1, Len(body)))
        wellformed == /\ Cardinality(dots) <= 1
                      /\ AllIn(whole, Digits)
                      /\ AllIn(frac, Digits)
                      /\ Len(body) - Cardinality(dots) >= 1
    IN  IF ~wellformed THEN [ok |-> FALSE, val |-> 0]
        ELSE IF frac = <<>> THEN [ok |-> TRUE, val |-> sign * DigitsValue(whole)]
        ELSE [ok |-> TRUE,
              val |-> [sign |-> sign, whole |-> DigitsValue(whole), frac |-> frac]]

SignedLiteral(t) ==
    IF t # <<>> /\ Head(t) = "-" THEN FloatLiteral(Tail(t), -1) ELSE FloatLiteral(t, 1)

PyFloat(s) == SignedLiteral(Strip(s))

(***************************************************************************)
(* Regular expressions (module re).  A pattern is a sequence of items; a   *)
(* match is sought as re's backtracking matcher seeks it: the leftmost     *)
(* start, a greedy repetition tried from its longest to its shortest, a    *)
(* reluctant one from its shortest, an optional group first with, then     *)
(* without.  Classes are written with re.IGNORECASE applied.               *)
(***************************************************************************)
UpperAZ == {"A", "B", "C", "D", "E", "F", "G", "H", "I", "J", "K", "L", "M",
            "N", "O", "P", "Q", "R", "S", "T", "U", "V", "W", "X", "Y", "Z"}
LowerAZ == {"a", "b", "c", "d", "e", "f", "g", "h", "i", "j", "k", "l", "m",
            "n", "o", "p", "q", "r", "s", "t", "u", "v", "w", "x", "y", "z"}
\* the Vietnamese letters of the labels
NonAsciiLetters == {"u00DD", "u1EC6", "u00E0", "u00E1", "u00FD", "u0103", "u01B0", "u1EA5", "u1EAD",
                    "u1EBF", "u1EC1", "u1EC7", "u1ED1", "u1ED5", "u1ED9", "u1EDB"}
Punctuation == {".", ",", ":", "/", "%", "(", ")", "-", "_"}
Alphabet == UpperAZ \cup LowerAZ \cup NonAsciiLetters \cup Digits
                \cup Punctuation \cup Whitespace

AlnumAZ09 == UpperAZ \cup LowerAZ \cup Digits            \* [A-Z0-9], IGNORECASE
NumberChars == Digits \cup {".", ","}                     \* [0-9\.,]
WordChars == UpperAZ \cup LowerAZ \cup NonAsciiLetters \cup Digits \cup {"_"}   \* \w
Not(S) == Alphabet \ S
Unbounded == 1000

\* re.IGNORECASE: a letter and its other case are the same
FoldCase(ch) ==
    IF ch \in UpperAZ THEN CHOOSE l \in LowerAZ : ToUpperAZ[l] = ch
    ELSE IF ch = "u00DD" THEN "u00FD"
    ELSE IF ch = "u1EC6" THEN "u1EC7"
    ELSE ch

Lit(w) == [kind |-> "lit", w |-> w]
Rep(set, lo, hi) == [kind |-> "rep", set |-> set, lo |-> lo, hi |-> hi, greedy |-> TRUE]
Reluctant(set, lo, hi) == [kind |-> "rep", set |-> set, lo |-> lo, hi |-> hi, greedy |-> FALSE]
Open(g) == [kind |-> "open", g |-> g]
Close(g) == [kind |-> "close", g |-> g]
\* (?: the next len items )?
Optional(len) == [kind |-> "opt", len |-> len]
WordBoundary == [kind |-> "wordb"]

MaxGroups == 4
NoCaps == [g \in 1..MaxGroups |-> <<0, 0>>]
NoMatch == [ok |-> FALSE, start |-> 0, end |-> 0, caps |-> NoCaps]

LitAt(t, p, w) ==
    /\ p + Len(w) - 1 <= Len(t)
    /\ \A i \in 1..Len(w) : FoldCase(t[p + i - 1]) = FoldCase(w[i])

RECURSIVE SpanIn(_, _, _, _)
\* how many characters of the class there are in a row from position lo on,
\* none past position hi (the range is halved to keep the evaluation shallow)
SpanIn(t, set, lo, hi) ==
    IF lo > hi THEN 0
    ELSE IF lo = hi THEN (IF t[lo] \in set THEN 1 ELSE 0)
    ELSE LET mid == (lo + hi) \div 2
             left == SpanIn(t, set, lo, mid)
         IN  IF left < mid - lo + 1 THEN left
             ELSE left + SpanIn(t, set, mid + 1, hi)

\* how many characters of the class follow position p, hi at most
SpanLen(t, p, set, hi) ==
    SpanIn(t, set, p, IF p + hi - 1 < Len(t) THEN p + hi - 1 ELSE Len(t))

IsWordBoundary(t, p) ==
    LET before == p > 1 /\ t[p - 1] \in WordChars
        after == p <= Len(t) /\ t[p] \in WordChars
    IN  before # after

RECURSIVE MatchFrom(_, _, _, _)
RECURSIVE TryRep(_, _, _, _, _, _, _, _)
\* the match of items i.. of the pattern at position p that re prefers
MatchFrom(pattern, t, i, p) ==
    IF i > Len(pattern) THEN [ok |-> TRUE, start |-> 0, end |-> p, caps |-> NoCaps]
    ELSE LET it == pattern[i]
         IN  CASE it.kind = "lit" ->
                    IF LitAt(t, p, it.w) THEN MatchFrom(pattern, t, i + 1, p + Len(it.w))
                    ELSE NoMatch
               [] it.kind = "rep" ->
                    LET span == SpanLen(t, p, it.set, it.hi)
                    IN  IF span < it.lo THEN NoMatch
                        ELSE IF it.greedy
                             THEN TryRep(pattern, t, i, p, span, -1, 0, span - it.lo)
                             ELSE TryRep(pattern, t, i, p, it.lo, 1, 0, span - it.lo)
               [] it.kind = "open" ->
                    LET r == MatchFrom(pattern, t, i + 1, p)
                    IN  IF r.ok THEN [r EXCEPT !.caps[it.g] = <<p, @[2]>>] ELSE r
               [] it.kind = "close" ->
                    LET r == MatchFrom(pattern, t, i + 1, p)
                    IN  IF r.ok THEN [r EXCEPT !.caps[it.g] = <<@[1], p>>] ELSE r
               [] it.kind = "opt" ->
                    LET r == MatchFrom(pattern, t, i + 1, p)
                    IN  IF r.ok THEN r ELSE MatchFrom(pattern, t, i + 1 + it.len, p)
               [] it.kind = "wordb" ->
                    IF IsWordBoundary(t, p) THEN MatchFrom(pattern, t, i + 1, p)
                    ELSE NoMatch

\* item i repeated first + a * step times, then first + (a + 1) * step times,
\* ... to first + b * step times: the first of these counts that lets the rest
\* of the pattern match (the range is halved to keep the evaluation shallow)
TryRep(pattern, t, i, p, first, step, a, b) ==
    IF a = b THEN MatchFrom(pattern, t, i + 1, p + first + a * step)
    ELSE LET mid == (a + b) \div 2
             r == TryRep(pattern, t, i, p, first, step, a, mid)
         IN  IF r.ok THEN r
             ELSE TryRep(pattern, t, i, p, first, step, mid + 1, b)

RECURSIVE SearchIn(_, _, _, _)
\* the leftmost match that starts at one of the positions lo..hi (the range is
\* halved to keep the evaluation shallow)
SearchIn(pattern, t, lo, hi) ==
    IF lo > hi THEN NoMatch
    ELSE IF lo = hi
         THEN LET r == MatchFrom(pattern, t, 1, lo)
              IN  IF r.ok THEN [r EXCEPT !.start = lo] ELSE NoMatch
    ELSE LET mid == (lo + hi) \div 2
             r == SearchIn(pattern, t, lo, mid)
         IN  IF r.ok THEN r ELSE SearchIn(pattern, t, mid + 1, hi)

\* pattern.search(t, p): the leftmost match that starts at p or later
SearchFrom(pattern, t, p) == SearchIn(pattern, t, p, Len(t) + 1)

\* pattern.search(t)
Search(pattern, t) == SearchFrom(pattern, t, 1)

\* name = value, then Body(name): the value is worked out once and then named
With(value, Body(_)) == Body(value)

RECURSIVE FindIterFrom(_, _, _)
FindIterFrom(pattern, t, p) ==
    With(SearchFrom(pattern, t, p), LAMBDA m :
        IF ~m.ok THEN <<>>
        ELSE <<m>> \o FindIterFrom(pattern, t, IF m.end > m.start THEN m.end ELSE m.end + 1))

\* pattern.finditer(t): the matches one after another, none overlapping
FindIter(pattern, t) == FindIterFrom(pattern, t, 1)

\* match.group(g)
Group(t, m, g) == SubSeq(t, m.caps[g][1], m.caps[g][2] - 1)

\* re.sub(r"\s+", " ", text): the first character of a run of white space
\* becomes a space, the others of the run go
Normalise(text) ==
    LET marked == [i \in 1..Len(text) |->
                      IF text[i] \notin Whitespace THEN text[i]
                      ELSE IF i > 1 /\ text[i - 1] \in Whitespace THEN "" ELSE " "]
    IN  SelectSeq(marked, LAMBDA ch : ch # "")

(***************************************************************************)
(* datetime.date(year, month, day).isoformat(), or ValueError.             *)
(***************************************************************************)
IsLeap(y) == y % 4 = 0 /\ (y % 100 # 0 \/ y % 400 = 0)
DaysInMonth(y, m) ==
    CASE m \in {1, 3, 5, 7, 8, 10, 12} -> 31
      [] m \in {4, 6, 9, 11} -> 30
      [] m = 2 -> IF IsLeap(y) THEN 29 ELSE 28
\* date(y, m, d) is a date: MINYEAR <= y <= MAXYEAR and the day is in the month
IsDate(y, m, d) ==
    /\ y >= 1 /\ y <= 9999
    /\ m >= 1 /\ m <= 12
    /\ d >= 1 /\ d <= DaysInMonth(y, m)
TwoDigits(n) == <<DigitChar[((n \div 10) % 10) + 1], DigitChar[(n % 10) + 1]>>
FourDigits(n) == TwoDigits(n \div 100) \o TwoDigits(n % 100)
\* date.isoformat(): YYYY-MM-DD
IsoFormat(y, m, d) == FourDigits(y) \o <<"-">> \o TwoDigits(m) \o <<"-">> \o TwoDigits(d)

(***************************************************************************)
(* The Number Normalizer, once per parser.  A call returns a float, or     *)
(* raises: [raised |-> FALSE, ret |-> the float] is a normal return.       *)
(***************************************************************************)
Return(v) == [raised |-> FALSE, ret |-> v]
Raise == [raised |-> TRUE, ret |-> 0]

\* the string MobifoneInvoiceParser._parse_number hands to float()
Mobifone_cleaned(value) ==
    LET c1 == Strip(Replace(value, "nbsp", <<" ">>))
        c2 == Replace(Replace(c1, ",", <<".">>), " ", <<>>)
    IN  Replace(c2, ".", <<>>)

\* a sentinel of -1.0 in place of 0.0 when the conversion fails
Mobifone_parse_number_sentinel(value) ==
    IF value = <<>> THEN Return(0)
    ELSE With(PyFloat(Mobifone_cleaned(value)), LAMBDA r :
             IF r.ok THEN Return(r.val) ELSE Return(-1))

Mobifone_parse_number(value) ==
    IF value = <<>> THEN Return(0)
    ELSE With(PyFloat(Mobifone_cleaned(value)), LAMBDA r :
             IF r.ok THEN Return(r.val) ELSE Return(0))

\* the fraction cut off at the decimal comma
Viettel_cleaned_truncating(value) ==
    LET c1 == Strip(Replace(value, "nbsp", <<>>))
        commas == {i \in 1..Len(c1) : c1[i] = ","}
        cut == IF commas = {} THEN Len(c1) + 1
               ELSE CHOOSE i \in commas : \A j \in commas : i <= j
    IN  Replace(SubSeq(c1, 1, cut - 1), ".", <<>>)

\* the string ViettelInvoiceParser._parse_number hands to float()
Viettel_cleaned(value) ==
    LET c1 == Strip(Replace(value, "nbsp", <<>>))
        c2 == Replace(c1, ",", <<".">>)
    IN  Replace(c2, ".", <<>>)

\* the conversion without its try/except
Viettel_parse_number_uncaught(value) ==
    With(PyFloat(Viettel_cleaned(value)), LAMBDA r : IF r.ok THEN Return(r.val) ELSE Raise)

Viettel_parse_number(value) ==
    With(PyFloat(Viettel_cleaned(value)), LAMBDA r : IF r.ok THEN Return(r.val) ELSE Return(0))

\* the non-breaking spaces left in place
VNPT_cleaned_keeps_nbsp(value) ==
    LET c1 == Strip(value)
        c2 == Replace(c1, ",", <<".">>)
    IN  Replace(c2, ".", <<>>)

\* the string VNPTInvoiceParser._parse_number hands to float()
VNPT_cleaned(value) ==
    LET c1 == Strip(Replace(value, "nbsp", <<>>))
        c2 == Replace(c1, ",", <<".">>)
    IN  Replace(c2, ".", <<>>)

VNPT_parse_number(value) ==
    With(PyFloat(VNPT_cleaned(value)), LAMBDA r : IF r.ok THEN Return(r.val) ELSE Return(0))

(***************************************************************************)
(* The words of the labels, as the patterns write them.                    *)
(***************************************************************************)
\* Ký, hiệu, Số, (No.), Ngày, tháng, năm, lập, Cước, Cộng, tiền,
\* hàng, Thuế, suất, GTGT, Tổng, thanh, toán, thuế, Tiền, cộng
Word ==
    [Ky |-> <<"K", "u00FD">>,
     hieu |-> <<"h", "i", "u1EC7", "u">>,
     So |-> <<"S", "u1ED1">>,
     No_ |-> <<"(", "N", "o", ".", ")">>,
     Ngay |-> <<"N", "g", "u00E0", "y">>,
     thang |-> <<"t", "h", "u00E1", "n", "g">>,
     nam |-> <<"n", "u0103", "m">>,
     lap |-> <<"l", "u1EAD", "p">>,
     Cuoc |-> <<"C", "u01B0", "u1EDB", "c">>,
     Cong |-> <<"C", "u1ED9", "n", "g">>,
     tien |-> <<"t", "i", "u1EC1", "n">>,
     hang |-> <<"h", "u00E0", "n", "g">>,
     Thue |-> <<"T", "h", "u", "u1EBF">>,
     suat |-> <<"s", "u", "u1EA5", "t">>,
     GTGT |-> <<"G", "T", "G", "T">>,
     Tong |-> <<"T", "u1ED5", "n", "g">>,
     thanh |-> <<"t", "h", "a", "n", "h">>,
     toan |-> <<"t", "o", "u00E1", "n">>,
     thue |-> <<"t", "h", "u", "u1EBF">>,
     Tien |-> <<"T", "i", "u1EC1", "n">>,
     cong |-> <<"c", "u1ED9", "n", "g">>]

(***************************************************************************)
(* MobifoneInvoiceParser.                                                  *)
(***************************************************************************)
\* \b([A-Z0-9]{4,})\s+(\d{4,})\s+Ky\s*hieu\s*So
Mobifone_serial_number_combo_pattern ==
    <<WordBoundary, Open(1), Rep(AlnumAZ09, 4, Unbounded), Close(1),
      Rep(Whitespace, 1, Unbounded), Open(2), Rep(Digits, 4, Unbounded), Close(2),
      Rep(Whitespace, 1, Unbounded), Lit(Word.Ky), Rep(Whitespace, 0, Unbounded),
      Lit(Word.hieu), Rep(Whitespace, 0, Unbounded), Lit(Word.So)>>
\* Ky\s*hieu[^:]*[:\s]\s*([A-Z0-9]{4,})
Mobifone_serial_pattern ==
    <<Lit(Word.Ky), Rep(Whitespace, 0, Unbounded), Lit(Word.hieu), Rep(Not({":"}), 0, Unbounded),
      Rep({":"} \cup Whitespace, 1, 1), Rep(Whitespace, 0, Unbounded),
      Open(1), Rep(AlnumAZ09, 4, Unbounded), Close(1)>>
\* So\s*(?:\(No\.\))?[^:]*[:\s]\s*(\d+)
Mobifone_number_pattern ==
    <<Lit(Word.So), Rep(Whitespace, 0, Unbounded), Optional(1), Lit(Word.No_),
      Rep(Not({":"}), 0, Unbounded), Rep({":"} \cup Whitespace, 1, 1),
      Rep(Whitespace, 0, Unbounded), Open(1), Rep(Digits, 1, Unbounded), Close(1)>>
\* Ngay\s+(\d{1,2})\s+thang\s+(\d{1,2})\s+nam\s+(\d{4})
Mobifone_date_pattern ==
    <<Lit(Word.Ngay), Rep(Whitespace, 1, Unbounded), Open(1), Rep(Digits, 1, 2), Close(1),
      Rep(Whitespace, 1, Unbounded), Lit(Word.thang), Rep(Whitespace, 1, Unbounded),
      Open(2), Rep(Digits, 1, 2), Close(2), Rep(Whitespace, 1, Unbounded), Lit(Word.nam),
      Rep(Whitespace, 1, Unbounded), Open(3), Rep(Digits, 4, 4), Close(3)>>
\* ([0-9][0-9\.\,]*)\s+([0-9][0-9\.\,]*)\s+(\d{1,2})%\s+([0-9][0-9\.\,]*)\s+Cuoc
Mobifone_line_pattern ==
    <<Open(1), Rep(Digits, 1, 1), Rep(NumberChars, 0, Unbounded), Close(1),
      Rep(Whitespace, 1, Unbounded),
      Open(2), Rep(Digits, 1, 1), Rep(NumberChars, 0, Unbounded), Close(2),
      Rep(Whitespace, 1, Unbounded),
      Open(3), Rep(Digits, 1, 2), Close(3), Lit(<<"%">>), Rep(Whitespace, 1, Unbounded),
      Open(4), Rep(Digits, 1, 1), Rep(NumberChars, 0, Unbounded), Close(4),
      Rep(Whitespace, 1, Unbounded), Lit(Word.Cuoc)>>

\* a parse_pdf call returns its result dict, or raises
Returned(invoice) == [raised |-> FALSE, invoice |-> invoice]
EmptyInvoice == [invoice_no |-> <<>>, serial_no |-> <<>>, invoice_date |-> <<>>, lines |-> <<>>]
ParseRaised == [raised |-> TRUE, invoice |-> EmptyInvoice]

\* the date written from the matched digits with no check of the calendar
Mobifone_invoice_date_unchecked(day, month, year) ==
    IsoFormat(DigitsValue(year), DigitsValue(month), DigitsValue(day))

\* try: date(int(year), int(month), int(day)).isoformat() except ValueError: ""
Mobifone_invoice_date(day, month, year) ==
    IF IsDate(DigitsValue(year), DigitsValue(month), DigitsValue(day))
    THEN IsoFormat(DigitsValue(year), DigitsValue(month), DigitsValue(day))
    ELSE <<>>

\* the dict of one charge line from its three converted amounts and its rate;
\* building it raises when a conversion raised
Figures(base_amount, vat_rate, vat_amount, total_amount) ==
    [raised |-> base_amount.raised \/ vat_amount.raised \/ total_amount.raised,
     line |-> [base_amount |-> base_amount.ret,
               vat_rate |-> vat_rate,
               vat_amount |-> vat_amount.ret,
               total_amount |-> total_amount.ret]]

LineKey(line) == <<line.base_amount, line.vat_rate, line.vat_amount, line.total_amount>>

\* the four captures read in Viettel's column order
Mobifone_line_viettel_columns(t, m) ==
    Figures(Mobifone_parse_number(Group(t, m, 1)),
            DigitsValue(SelectSeq(Group(t, m, 2), LAMBDA c : c \in Digits)),
            Mobifone_parse_number(Group(t, m, 3)),
            Mobifone_parse_number(Group(t, m, 4)))

\* one match of _line_pattern as a line dict: total, VAT, rate, base
Mobifone_line(t, m) ==
    Figures(Mobifone_parse_number(Group(t, m, 4)),
            DigitsValue(Group(t, m, 3)),
            Mobifone_parse_number(Group(t, m, 2)),
            Mobifone_parse_number(Group(t, m, 1)))

\* raw_lines: one line dict per match of _line_pattern, in the order of the text
Mobifone_raw_lines(normalised) ==
    With(FindIter(Mobifone_line_pattern, normalised), LAMBDA matches :
        [i \in 1..Len(matches) |-> Mobifone_line(normalised, matches[i])])

\* every captured line kept, duplicates too
Mobifone_lines_unfiltered(raw_lines, seen) == raw_lines

RECURSIVE Mobifone_unique_lines(_, _)
\* the loop over raw_lines: a line is kept when its key is not in seen
Mobifone_unique_lines(raw_lines, seen) ==
    IF raw_lines = <<>> THEN <<>>
    ELSE IF LineKey(Head(raw_lines)) \notin seen
         THEN <<Head(raw_lines)>>
                  \o Mobifone_unique_lines(Tail(raw_lines), seen \cup {LineKey(Head(raw_lines))})
         ELSE Mobifone_unique_lines(Tail(raw_lines), seen)

\* serial_no from the label pattern first, from the combined header next
Mobifone_serial_no_label_first(normalised) ==
    With(Search(Mobifone_serial_number_combo_pattern, normalised), LAMBDA combo_match :
    With(Search(Mobifone_serial_pattern, normalised), LAMBDA serial_match :
        IF serial_match.ok THEN Strip(Group(normalised, serial_match, 1))
        ELSE IF combo_match.ok THEN Strip(Group(normalised, combo_match, 1))
        ELSE <<>>))

\* serial_no: the combined header first, the label pattern next, "" last
Mobifone_serial_no(normalised) ==
    With(Search(Mobifone_serial_number_combo_pattern, normalised), LAMBDA combo_match :
    With(Search(Mobifone_serial_pattern, normalised), LAMBDA serial_match :
        IF combo_match.ok THEN Strip(Group(normalised, combo_match, 1))
        ELSE IF serial_match.ok THEN Strip(Group(normalised, serial_match, 1))
        ELSE <<>>))

\* invoice_no: the combined header first, the label pattern next, "" last
Mobifone_invoice_no(normalised) ==
    With(Search(Mobifone_serial_number_combo_pattern, normalised), LAMBDA combo_match :
    With(Search(Mobifone_number_pattern, normalised), LAMBDA number_match :
        IF combo_match.ok THEN Strip(Group(normalised, combo_match, 2))
        ELSE IF number_match.ok THEN Strip(Group(normalised, number_match, 1))
        ELSE <<>>))

Mobifone_date(normalised) ==
    With(Search(Mobifone_date_pattern, normalised), LAMBDA date_match :
        IF date_match.ok
        THEN Mobifone_invoice_date(Group(normalised, date_match, 1),
                 Group(normalised, date_match, 2),
                 Group(normalised, date_match, 3))
        ELSE <<>>)

\* a parse_pdf that gives up on a text without a date
Mobifone_parse_pdf_aborting(text) ==
    With(Normalise(text), LAMBDA normalised :
        IF ~Search(Mobifone_date_pattern, normalised).ok THEN ParseRaised
        ELSE Returned([invoice_no |-> Mobifone_invoice_no(normalised),
                       serial_no |-> Mobifone_serial_no(normalised),
                       invoice_date |-> Mobifone_date(normalised),
                       lines |-> <<>>]))

Mobifone_parse_pdf(text) ==
    With(Normalise(text), LAMBDA normalised :
    With(Mobifone_raw_lines(normalised), LAMBDA raw :
        IF \E i \in 1..Len(raw) : raw[i].raised THEN ParseRaised
        ELSE Returned([invoice_no |-> Mobifone_invoice_no(normalised),
                       serial_no |-> Mobifone_serial_no(normalised),
                       invoice_date |-> Mobifone_date(normalised),
                       lines |-> Mobifone_unique_lines([i \in 1..Len(raw) |-> raw[i].line], {})])))

(***************************************************************************)
(* ViettelInvoiceParser.                                                   *)
(***************************************************************************)
\* Ky\s*hieu\s*[:\s]\s*([A-Z0-9]+)
Viettel_serial_pattern ==
    <<Lit(Word.Ky), Rep(Whitespace, 0, Unbounded), Lit(Word.hieu), Rep(Whitespace, 0, Unbounded),
      Rep({":"} \cup Whitespace, 1, 1), Rep(Whitespace, 0, Unbounded),
      Open(1), Rep(AlnumAZ09, 1, Unbounded), Close(1)>>
\* So\s*[:\s]\s*(\d+)
Viettel_number_pattern ==
    <<Lit(Word.So), Rep(Whitespace, 0, Unbounded), Rep({":"} \cup Whitespace, 1, 1),
      Rep(Whitespace, 0, Unbounded), Open(1), Rep(Digits, 1, Unbounded), Close(1)>>
\* Ngay\s*(?:lap)?\s*[:\s]*([0-9]{1,2})/([0-9]{1,2})/([0-9]{4})
Viettel_date_slash_pattern ==
    <<Lit(Word.Ngay), Rep(Whitespace, 0, Unbounded), Optional(1), Lit(Word.lap),
      Rep(Whitespace, 0, Unbounded), Rep({":"} \cup Whitespace, 0, Unbounded),
      Open(1), Rep(Digits, 1, 2), Close(1), Lit(<<"/">>),
      Open(2), Rep(Digits, 1, 2), Close(2), Lit(<<"/">>),
      Open(3), Rep(Digits, 4, 4), Close(3)>>
\* Ngay\s+([0-9]{1,2})\s+thang\s+([0-9]{1,2})\s+nam\s+([0-9]{4})
Viettel_date_text_pattern ==
    <<Lit(Word.Ngay), Rep(Whitespace, 1, Unbounded), Open(1), Rep(Digits, 1, 2), Close(1),
      Rep(Whitespace, 1, Unbounded), Lit(Word.thang), Rep(Whitespace, 1, Unbounded),
      Open(2), Rep(Digits, 1, 2), Close(2), Rep(Whitespace, 1, Unbounded), Lit(Word.nam),
      Rep(Whitespace, 1, Unbounded), Open(3), Rep(Digits, 4, 4), Close(3)>>
\* ([0-9][0-9\.,]*)\s+(\d{1,2})%\s+([0-9][0-9\.,]*)\s+([0-9][0-9\.,]*)
Viettel_line_pattern ==
    <<Open(1), Rep(Digits, 1, 1), Rep(NumberChars, 0, Unbounded), Close(1),
      Rep(Whitespace, 1, Unbounded),
      Open(2), Rep(Digits, 1, 2), Close(2), Lit(<<"%">>), Rep(Whitespace, 1, Unbounded),
      Open(3), Rep(Digits, 1, 1), Rep(NumberChars, 0, Unbounded), Close(3),
      Rep(Whitespace, 1, Unbounded),
      Open(4), Rep(Digits, 1, 1), Rep(NumberChars, 0, Unbounded), Close(4)>>

Viettel_serial_no(normalised) ==
    With(Search(Viettel_serial_pattern, normalised), LAMBDA serial_match :
        IF serial_match.ok THEN Strip(Group(normalised, serial_match, 1)) ELSE <<>>)

Viettel_invoice_no(normalised) ==
    With(Search(Viettel_number_pattern, normalised), LAMBDA number_match :
        IF number_match.ok THEN Strip(Group(normalised, number_match, 1)) ELSE <<>>)

\* the first number of the date read as the month, the second as the day
Viettel_invoice_date_month_first(day, month, year) ==
    IF IsDate(DigitsValue(year), DigitsValue(day), DigitsValue(month))
    THEN IsoFormat(DigitsValue(year), DigitsValue(day), DigitsValue(month))
    ELSE <<>>

\* try: date(int(year), int(month), int(day)).isoformat() except ValueError: ""
Viettel_invoice_date(day, month, year) ==
    IF IsDate(DigitsValue(year), DigitsValue(month), DigitsValue(day))
    THEN IsoFormat(DigitsValue(year), DigitsValue(month), DigitsValue(day))
    ELSE <<>>

\* a date step that turns to the text form whenever the slash form gives
\* no date of the calendar
Viettel_date_text_unless_valid_slash(normalised) ==
    With(Search(Viettel_date_slash_pattern, normalised), LAMBDA slash_match :
    With(Search(Viettel_date_text_pattern, normalised), LAMBDA text_match :
        IF /\ slash_match.ok
           /\ Viettel_invoice_date(Group(normalised, slash_match, 1),
                  Group(normalised, slash_match, 2),
                  Group(normalised, slash_match, 3)) # <<>>
        THEN Viettel_invoice_date(Group(normalised, slash_match, 1),
                 Group(normalised, slash_match, 2),
                 Group(normalised, slash_match, 3))
        ELSE IF text_match.ok
        THEN Viettel_invoice_date(Group(normalised, text_match, 1),
                 Group(normalised, text_match, 2),
                 Group(normalised, text_match, 3))
        ELSE <<>>))

\* the slash form first; the text form only when the slash form is not found
Viettel_date(normalised) ==
    With(Search(Viettel_date_slash_pattern, normalised), LAMBDA slash_match :
    With(Search(Viettel_date_text_pattern, normalised), LAMBDA text_match :
        IF slash_match.ok
        THEN Viettel_invoice_date(Group(normalised, slash_match, 1),
                 Group(normalised, slash_match, 2),
                 Group(normalised, slash_match, 3))
        ELSE IF text_match.ok
        THEN Viettel_invoice_date(Group(normalised, text_match, 1),
                 Group(normalised, text_match, 2),
                 Group(normalised, text_match, 3))
        ELSE <<>>))

\* one match of _line_pattern as a line dict: base, rate, VAT, total
Viettel_line(t, m) ==
    Figures(Viettel_parse_number(Group(t, m, 1)),
            DigitsValue(Group(t, m, 2)),
            Viettel_parse_number(Group(t, m, 3)),
            Viettel_parse_number(Group(t, m, 4)))

\* lines: one line dict per match of _line_pattern, in the order of the text
Viettel_raw_lines(normalised) ==
    With(FindIter(Viettel_line_pattern, normalised), LAMBDA matches :
        [i \in 1..Len(matches) |-> Viettel_line(normalised, matches[i])])

RECURSIVE Viettel_filtered_keep_last(_, _)
\* a line is kept when no later line has its key
Viettel_filtered_keep_last(lines, unique) ==
    IF lines = <<>> THEN <<>>
    ELSE IF \E i \in 2..Len(lines) : LineKey(lines[i]) = LineKey(Head(lines))
         THEN Viettel_filtered_keep_last(Tail(lines), unique)
         ELSE <<Head(lines)>> \o Viettel_filtered_keep_last(Tail(lines), unique)

RECURSIVE Viettel_filtered(_, _)
\* the loop over lines: a line is kept when its key is not in unique
Viettel_filtered(lines, unique) ==
    IF lines = <<>> THEN <<>>
    ELSE IF LineKey(Head(lines)) \notin unique
         THEN <<Head(lines)>>
                  \o Viettel_filtered(Tail(lines), unique \cup {LineKey(Head(lines))})
         ELSE Viettel_filtered(Tail(lines), unique)

\* the result dict built with a key only for the header field that was found
Viettel_parse_pdf_found_keys_only(text) ==
    With(Normalise(text), LAMBDA normalised :
    With(Viettel_raw_lines(normalised), LAMBDA raw :
    With([invoice_no |-> Viettel_invoice_no(normalised),
          serial_no |-> Viettel_serial_no(normalised),
          invoice_date |-> Viettel_date(normalised),
          lines |-> Viettel_filtered([i \in 1..Len(raw) |-> raw[i].line], {})], LAMBDA result :
        [raised |-> FALSE,
         invoice |-> [k \in {f \in {"invoice_no", "serial_no", "invoice_date"} :
                                 result[f] # <<>>} \cup {"lines"} |-> result[k]]])))

Viettel_parse_pdf(text) ==
    With(Normalise(text), LAMBDA normalised :
    With(Viettel_raw_lines(normalised), LAMBDA raw :
        IF \E i \in 1..Len(raw) : raw[i].raised THEN ParseRaised
        ELSE Returned([invoice_no |-> Viettel_invoice_no(normalised),
                       serial_no |-> Viettel_serial_no(normalised),
                       invoice_date |-> Viettel_date(normalised),
                       lines |-> Viettel_filtered([i \in 1..Len(raw) |-> raw[i].line], {})])))

(***************************************************************************)
(* ViettelInvoiceParser of the invoice_parsers package.                     *)
(***************************************************************************)
\* the string its _parse_number hands to float()
invoice_parsers_Viettel_cleaned(value) ==
    LET c1 == Strip(Replace(value, "nbsp", <<>>))
        c2 == Replace(c1, ",", <<".">>)
    IN  Replace(c2, ".", <<>>)

invoice_parsers_Viettel_parse_number(value) ==
    With(PyFloat(invoice_parsers_Viettel_cleaned(value)), LAMBDA r : IF r.ok THEN Return(r.val) ELSE Return(0))

\* Ky\s*hieu\s*[:\s]\s*([A-Z0-9]+)
invoice_parsers_Viettel_serial_pattern ==
    <<Lit(Word.Ky), Rep(Whitespace, 0, Unbounded), Lit(Word.hieu), Rep(Whitespace, 0, Unbounded),
      Rep({":"} \cup Whitespace, 1, 1), Rep(Whitespace, 0, Unbounded),
      Open(1), Rep(AlnumAZ09, 1, Unbounded), Close(1)>>
\* So\s*[:\s]\s*(\d+)
invoice_parsers_Viettel_number_pattern ==
    <<Lit(Word.So), Rep(Whitespace, 0, Unbounded), Rep({":"} \cup Whitespace, 1, 1),
      Rep(Whitespace, 0, Unbounded), Open(1), Rep(Digits, 1, Unbounded), Close(1)>>
\* Ngay\s*(?:lap)?\s*[:\s]*([0-9]{1,2})/([0-9]{1,2})/([0-9]{4})
invoice_parsers_Viettel_date_slash_pattern ==
    <<Lit(Word.Ngay), Rep(Whitespace, 0, Unbounded), Optional(1), Lit(Word.lap),
      Rep(Whitespace, 0, Unbounded), Rep({":"} \cup Whitespace, 0, Unbounded),
      Open(1), Rep(Digits, 1, 2), Close(1), Lit(<<"/">>),
      Open(2), Rep(Digits, 1, 2), Close(2), Lit(<<"/">>),
      Open(3), Rep(Digits, 4, 4), Close(3)>>
\* Ngay\s+([0-9]{1,2})\s+thang\s+([0-9]{1,2})\s+nam\s+([0-9]{4})
invoice_parsers_Viettel_date_text_pattern ==
    <<Lit(Word.Ngay), Rep(Whitespace, 1, Unbounded), Open(1), Rep(Digits, 1, 2), Close(1),
      Rep(Whitespace, 1, Unbounded), Lit(Word.thang), Rep(Whitespace, 1, Unbounded),
      Open(2), Rep(Digits, 1, 2), Close(2), Rep(Whitespace, 1, Unbounded), Lit(Word.nam),
      Rep(Whitespace, 1, Unbounded), Open(3), Rep(Digits, 4, 4), Close(3)>>
\* ([0-9][0-9\.,]*)\s+(\d{1,2})%\s+([0-9][0-9\.,]*)\s+([0-9][0-9\.,]*)
invoice_parsers_Viettel_line_pattern ==
    <<Open(1), Rep(Digits, 1, 1), Rep(NumberChars, 0, Unbounded), Close(1),
      Rep(Whitespace, 1, Unbounded),
      Open(2), Rep(Digits, 1, 2), Close(2), Lit(<<"%">>), Rep(Whitespace, 1, Unbounded),
      Open(3), Rep(Digits, 1, 1), Rep(NumberChars, 0, Unbounded), Close(3),
      Rep(Whitespace, 1, Unbounded),
      Open(4), Rep(Digits, 1, 1), Rep(NumberChars, 0, Unbounded), Close(4)>>

invoice_parsers_Viettel_serial_no(normalised) ==
    With(Search(invoice_parsers_Viettel_serial_pattern, normalised), LAMBDA serial_match :
        IF serial_match.ok THEN Strip(Group(normalised, serial_match, 1)) ELSE <<>>)

invoice_parsers_Viettel_invoice_no(normalised) ==
    With(Search(invoice_parsers_Viettel_number_pattern, normalised), LAMBDA number_match :
        IF number_match.ok THEN Strip(Group(normalised, number_match, 1)) ELSE <<>>)

\* try: date(int(year), int(month), int(day)).isoformat() except ValueError: ""
invoice_parsers_Viettel_invoice_date(day, month, year) ==
    IF IsDate(DigitsValue(year), DigitsValue(month), DigitsValue(day))
    THEN IsoFormat(DigitsValue(year), DigitsValue(month), DigitsValue(day))
    ELSE <<>>

\* the slash form first; the text form only when the slash form is not found
invoice_parsers_Viettel_date(normalised) ==
    With(Search(invoice_parsers_Viettel_date_slash_pattern, normalised), LAMBDA slash_match :
    With(Search(invoice_parsers_Viettel_date_text_pattern, normalised), LAMBDA text_match :
        IF slash_match.ok
        THEN invoice_parsers_Viettel_invoice_date(Group(normalised, slash_match, 1),
                 Group(normalised, slash_match, 2),
                 Group(normalised, slash_match, 3))
        ELSE IF text_match.ok
        THEN invoice_parsers_Viettel_invoice_date(Group(normalised, text_match, 1),
                 Group(normalised, text_match, 2),
                 Group(normalised, text_match, 3))
        ELSE <<>>))

\* one match of _line_pattern as a line dict: base, rate, VAT, total
invoice_parsers_Viettel_line(t, m) ==
    Figures(invoice_parsers_Viettel_parse_number(Group(t, m, 1)),
            DigitsValue(Group(t, m, 2)),
            invoice_parsers_Viettel_parse_number(Group(t, m, 3)),
            invoice_parsers_Viettel_parse_number(Group(t, m, 4)))

\* lines: one line dict per match of _line_pattern, in the order of the text
invoice_parsers_Viettel_raw_lines(normalised) ==
    With(FindIter(invoice_parsers_Viettel_line_pattern, normalised), LAMBDA matches :
        [i \in 1..Len(matches) |-> invoice_parsers_Viettel_line(normalised, matches[i])])

RECURSIVE invoice_parsers_Viettel_filtered(_, _)
\* the loop over lines: a line is kept when its key is not in unique
invoice_parsers_Viettel_filtered(lines, unique) ==
    IF lines = <<>> THEN <<>>
    ELSE IF LineKey(Head(lines)) \notin unique
         THEN <<Head(lines)>>
                  \o invoice_parsers_Viettel_filtered(Tail(lines), unique \cup {LineKey(Head(lines))})
         ELSE invoice_parsers_Viettel_filtered(Tail(lines), unique)

invoice_parsers_Viettel_parse_pdf(text) ==
    With(Normalise(text), LAMBDA normalised :
    With(invoice_parsers_Viettel_raw_lines(normalised), LAMBDA raw :
        IF \E i \in 1..Len(raw) : raw[i].raised THEN ParseRaised
        ELSE Returned([invoice_no |-> invoice_parsers_Viettel_invoice_no(normalised),
                       serial_no |-> invoice_parsers_Viettel_serial_no(normalised),
                       invoice_date |-> invoice_parsers_Viettel_date(normalised),
                       lines |-> invoice_parsers_Viettel_filtered([i \in 1..Len(raw) |-> raw[i].line], {})])))

(***************************************************************************)
(* VNPTInvoiceParser.                                                      *)
(***************************************************************************)
\* Ky\s*hieu\s*(?:\([^)]*\))?[^:\n]*[:\s]+([A-Z0-9]+)
VNPT_serial_pattern ==
    <<Lit(Word.Ky), Rep(Whitespace, 0, Unbounded), Lit(Word.hieu), Rep(Whitespace, 0, Unbounded),
      Optional(3), Lit(<<"(">>), Rep(Not({")"}), 0, Unbounded), Lit(<<")">>),
      Rep(Not({":", "nl"}), 0, Unbounded), Rep({":"} \cup Whitespace, 1, Unbounded),
      Open(1), Rep(AlnumAZ09, 1, Unbounded), Close(1)>>
\* So\s*(?:\([^)]*\))?[^:\n]*[:\s]+(\d+)
VNPT_number_pattern ==
    <<Lit(Word.So), Rep(Whitespace, 0, Unbounded),
      Optional(3), Lit(<<"(">>), Rep(Not({")"}), 0, Unbounded), Lit(<<")">>),
      Rep(Not({":", "nl"}), 0, Unbounded), Rep({":"} \cup Whitespace, 1, Unbounded),
      Open(1), Rep(Digits, 1, Unbounded), Close(1)>>
\* Ngay[^0-9]*([0-9]{1,2})[^0-9]+([0-9]{1,2})[^0-9]+([0-9]{4})
VNPT_date_pattern ==
    <<Lit(Word.Ngay), Rep(Not(Digits), 0, Unbounded), Open(1), Rep(Digits, 1, 2), Close(1),
      Rep(Not(Digits), 1, Unbounded), Open(2), Rep(Digits, 1, 2), Close(2),
      Rep(Not(Digits), 1, Unbounded), Open(3), Rep(Digits, 4, 4), Close(3)>>
\* Cong\s+tien\s+hang[^:]*[:\s]*([0-9][0-9\.,]*)
VNPT_base_amount_pattern ==
    <<Lit(Word.Cong), Rep(Whitespace, 1, Unbounded), Lit(Word.tien), Rep(Whitespace, 1, Unbounded),
      Lit(Word.hang), Rep(Not({":"}), 0, Unbounded), Rep({":"} \cup Whitespace, 0, Unbounded),
      Open(1), Rep(Digits, 1, 1), Rep(NumberChars, 0, Unbounded), Close(1)>>
\* Thue\s+suat\s+thue\s+GTGT[^:]*[:\s]*([0-9]{1,2})%?
VNPT_vat_rate_pattern ==
    <<Lit(Word.Thue), Rep(Whitespace, 1, Unbounded), Lit(Word.suat), Rep(Whitespace, 1, Unbounded),
      Lit(Word.thue), Rep(Whitespace, 1, Unbounded), Lit(Word.GTGT),
      Rep(Not({":"}), 0, Unbounded), Rep({":"} \cup Whitespace, 0, Unbounded),
      Open(1), Rep(Digits, 1, 2), Close(1), Rep({"%"}, 0, 1)>>
\* Tien\s+thue\s+GTGT[^:]*[:\s]*([0-9][0-9\.,]*)
VNPT_vat_amount_pattern ==
    <<Lit(Word.Tien), Rep(Whitespace, 1, Unbounded), Lit(Word.thue), Rep(Whitespace, 1, Unbounded),
      Lit(Word.GTGT), Rep(Not({":"}), 0, Unbounded), Rep({":"} \cup Whitespace, 0, Unbounded),
      Open(1), Rep(Digits, 1, 1), Rep(NumberChars, 0, Unbounded), Close(1)>>
\* Tong\s+cong\s+tien\s+thanh\s+toan[^:]*[:\s]*([0-9][0-9\.,]*)
VNPT_total_amount_pattern ==
    <<Lit(Word.Tong), Rep(Whitespace, 1, Unbounded), Lit(Word.cong), Rep(Whitespace, 1, Unbounded),
      Lit(Word.tien), Rep(Whitespace, 1, Unbounded), Lit(Word.thanh), Rep(Whitespace, 1, Unbounded),
      Lit(Word.toan), Rep(Not({":"}), 0, Unbounded), Rep({":"} \cup Whitespace, 0, Unbounded),
      Open(1), Rep(Digits, 1, 1), Rep(NumberChars, 0, Unbounded), Close(1)>>
\* ([0-9][0-9\.,]*)\s+Thue\s+suat\s+thue\s+GTGT[^0-9]*([0-9]{1,2})%.*?
\*     ([0-9][0-9\.,]*)\s+([0-9][0-9\.,]*)
VNPT_amount_block_pattern ==
    <<Open(1), Rep(Digits, 1, 1), Rep(NumberChars, 0, Unbounded), Close(1),
      Rep(Whitespace, 1, Unbounded), Lit(Word.Thue), Rep(Whitespace, 1, Unbounded),
      Lit(Word.suat), Rep(Whitespace, 1, Unbounded), Lit(Word.thue), Rep(Whitespace, 1, Unbounded),
      Lit(Word.GTGT), Rep(Not(Digits), 0, Unbounded),
      Open(2), Rep(Digits, 1, 2), Close(2), Lit(<<"%">>),
      Reluctant(Not({"nl"}), 0, Unbounded),
      Open(3), Rep(Digits, 1, 1), Rep(NumberChars, 0, Unbounded), Close(3),
      Rep(Whitespace, 1, Unbounded),
      Open(4), Rep(Digits, 1, 1), Rep(NumberChars, 0, Unbounded), Close(4)>>

VNPT_serial_no(normalised) ==
    With(Search(VNPT_serial_pattern, normalised), LAMBDA serial_match :
        IF serial_match.ok THEN Strip(Group(normalised, serial_match, 1)) ELSE <<>>)

VNPT_invoice_no(normalised) ==
    With(Search(VNPT_number_pattern, normalised), LAMBDA number_match :
        IF number_match.ok THEN Strip(Group(normalised, number_match, 1)) ELSE <<>>)

\* try: date(int(year), int(month), int(day)).isoformat() except ValueError: ""
VNPT_invoice_date(day, month, year) ==
    IF IsDate(DigitsValue(year), DigitsValue(month), DigitsValue(day))
    THEN IsoFormat(DigitsValue(year), DigitsValue(month), DigitsValue(day))
    ELSE <<>>

VNPT_date(normalised) ==
    With(Search(VNPT_date_pattern, normalised), LAMBDA date_match :
        IF date_match.ok
        THEN VNPT_invoice_date(Group(normalised, date_match, 1),
                 Group(normalised, date_match, 2),
                 Group(normalised, date_match, 3))
        ELSE <<>>)

\* the four figures of a match of _amount_block_pattern
VNPT_block_amounts(t, block_match) ==
    Figures(VNPT_parse_number(Group(t, block_match, 1)),
            IF Group(t, block_match, 2) # <<>> THEN DigitsValue(Group(t, block_match, 2))
            ELSE 0,
            VNPT_parse_number(Group(t, block_match, 3)),
            VNPT_parse_number(Group(t, block_match, 4)))

\* a figure whose label is not found is left out of the line as -1
VNPT_fallback_amounts_absent_negative(normalised) ==
    With(Search(VNPT_base_amount_pattern, normalised), LAMBDA base_match :
    With(Search(VNPT_vat_rate_pattern, normalised), LAMBDA vat_rate_match :
    With(Search(VNPT_vat_amount_pattern, normalised), LAMBDA vat_amount_match :
    With(Search(VNPT_total_amount_pattern, normalised), LAMBDA total_match :
        Figures(IF base_match.ok THEN VNPT_parse_number(Group(normalised, base_match, 1))
                ELSE Return(-1),
                IF vat_rate_match.ok THEN DigitsValue(Group(normalised, vat_rate_match, 1))
                ELSE -1,
                IF vat_amount_match.ok
                THEN VNPT_parse_number(Group(normalised, vat_amount_match, 1))
                ELSE Return(-1),
                IF total_match.ok THEN VNPT_parse_number(Group(normalised, total_match, 1))
                ELSE Return(-1))))))

\* the four figures from the four label patterns, 0 for a label not found
VNPT_fallback_amounts(normalised) ==
    With(Search(VNPT_base_amount_pattern, normalised), LAMBDA base_match :
    With(Search(VNPT_vat_rate_pattern, normalised), LAMBDA vat_rate_match :
    With(Search(VNPT_vat_amount_pattern, normalised), LAMBDA vat_amount_match :
    With(Search(VNPT_total_amount_pattern, normalised), LAMBDA total_match :
        Figures(IF base_match.ok THEN VNPT_parse_number(Group(normalised, base_match, 1))
                ELSE Return(0),
                IF vat_rate_match.ok THEN DigitsValue(Group(normalised, vat_rate_match, 1))
                ELSE 0,
                IF vat_amount_match.ok
                THEN VNPT_parse_number(Group(normalised, vat_amount_match, 1))
                ELSE Return(0),
                IF total_match.ok THEN VNPT_parse_number(Group(normalised, total_match, 1))
                ELSE Return(0))))))

\* the label patterns alone
VNPT_amounts_labels_only(normalised) == VNPT_fallback_amounts(normalised)

\* the block pattern alone
VNPT_amounts_block_only(normalised) ==
    With(Search(VNPT_amount_block_pattern, normalised), LAMBDA block_match :
        IF block_match.ok THEN VNPT_block_amounts(normalised, block_match)
        ELSE Figures(Return(0), 0, Return(0), Return(0)))

\* the block pattern first; the label patterns only when the block is not found
VNPT_amounts(normalised) ==
    With(Search(VNPT_amount_block_pattern, normalised), LAMBDA block_match :
        IF block_match.ok THEN VNPT_block_amounts(normalised, block_match)
        ELSE VNPT_fallback_amounts(normalised))

\* any([base_amount, vat_amount, total_amount])
VNPT_any_amount(line) ==
    line.base_amount # 0 \/ line.vat_amount # 0 \/ line.total_amount # 0

\* a parse_pdf that appends a line for the block and a line for the labels
VNPT_parse_pdf_line_per_step(text) ==
    With(Normalise(text), LAMBDA normalised :
    With(Search(VNPT_amount_block_pattern, normalised), LAMBDA block_match :
        Returned([invoice_no |-> VNPT_invoice_no(normalised),
                  serial_no |-> VNPT_serial_no(normalised),
                  invoice_date |-> VNPT_date(normalised),
                  lines |-> (IF block_match.ok
                             THEN <<VNPT_block_amounts(normalised, block_match).line>>
                             ELSE <<>>)
                            \o (IF VNPT_any_amount(VNPT_fallback_amounts(normalised).line)
                                THEN <<VNPT_fallback_amounts(normalised).line>>
                                ELSE <<>>)])))

VNPT_parse_pdf(text) ==
    With(Normalise(text), LAMBDA normalised :
    With(VNPT_amounts(normalised), LAMBDA amounts :
        IF amounts.raised THEN ParseRaised
        ELSE Returned([invoice_no |-> VNPT_invoice_no(normalised),
                       serial_no |-> VNPT_serial_no(normalised),
                       invoice_date |-> VNPT_date(normalised),
                       lines |-> IF VNPT_any_amount(amounts.line) THEN <<amounts.line>>
                                 ELSE <<>>])))

(***************************************************************************)
(* VNPTInvoiceParser of the invoice_parsers package.                       *)
(***************************************************************************)
\* its class attributes, each an re.compile(..., re.IGNORECASE):
\*   _serial_pattern        Ky\s*hieu\s*[:\s]+([A-Z0-9]+)
\*   _number_pattern        So\s*[:\s]+(\d+)
\*   _date_pattern          Ngay[^0-9]*([0-9]{1,2})[^0-9]+([0-9]{1,2})[^0-9]+([0-9]{4})
\*   _base_amount_pattern   Cong\s+tien\s+hang[^:]*:\s*([0-9][0-9\.,]*)
\*   _vat_rate_pattern      Thue\s+suat\s+thue\s+GTGT[^:]*:\s*(\d{1,2})%?
\*   _vat_amount_pattern    Tien\s+thue\s+GTGT[^:]*:\s*([0-9][0-9\.,]*)
\*   _total_amount_pattern  Tong\s+cong\s+tien\s+thanh\s+toan[^:]*:\s*([0-9][0-9\.,]*)
invoice_parsers_VNPT_patterns ==
    [serial_pattern |->
        <<Lit(Word.Ky), Rep(Whitespace, 0, Unbounded), Lit(Word.hieu),
          Rep(Whitespace, 0, Unbounded), Rep({":"} \cup Whitespace, 1, Unbounded),
          Open(1), Rep(AlnumAZ09, 1, Unbounded), Close(1)>>,
     number_pattern |->
        <<Lit(Word.So), Rep(Whitespace, 0, Unbounded),
          Rep({":"} \cup Whitespace, 1, Unbounded),
          Open(1), Rep(Digits, 1, Unbounded), Close(1)>>,
     date_pattern |->
        <<Lit(Word.Ngay), Rep(Not(Digits), 0, Unbounded),
          Open(1), Rep(Digits, 1, 2), Close(1), Rep(Not(Digits), 1, Unbounded),
          Open(2), Rep(Digits, 1, 2), Close(2), Rep(Not(Digits), 1, Unbounded),
          Open(3), Rep(Digits, 4, 4), Close(3)>>,
     base_amount_pattern |->
        <<Lit(Word.Cong), Rep(Whitespace, 1, Unbounded), Lit(Word.tien),
          Rep(Whitespace, 1, Unbounded), Lit(Word.hang),
          Rep(Not({":"}), 0, Unbounded), Lit(<<":">>), Rep(Whitespace, 0, Unbounded),
          Open(1), Rep(Digits, 1, 1), Rep(NumberChars, 0, Unbounded), Close(1)>>,
     vat_rate_pattern |->
        <<Lit(Word.Thue), Rep(Whitespace, 1, Unbounded), Lit(Word.suat),
          Rep(Whitespace, 1, Unbounded), Lit(Word.thue), Rep(Whitespace, 1, Unbounded),
          Lit(Word.GTGT),
          Rep(Not({":"}), 0, Unbounded), Lit(<<":">>), Rep(Whitespace, 0, Unbounded),
          Open(1), Rep(Digits, 1, 2), Close(1), Rep({"%"}, 0, 1)>>,
     vat_amount_pattern |->
        <<Lit(Word.Tien), Rep(Whitespace, 1, Unbounded), Lit(Word.thue),
          Rep(Whitespace, 1, Unbounded), Lit(Word.GTGT),
          Rep(Not({":"}), 0, Unbounded), Lit(<<":">>), Rep(Whitespace, 0, Unbounded),
          Open(1), Rep(Digits, 1, 1), Rep(NumberChars, 0, Unbounded), Close(1)>>,
     total_amount_pattern |->
        <<Lit(Word.Tong), Rep(Whitespace, 1, Unbounded), Lit(Word.cong),
          Rep(Whitespace, 1, Unbounded), Lit(Word.tien), Rep(Whitespace, 1, Unbounded),
          Lit(Word.thanh), Rep(Whitespace, 1, Unbounded), Lit(Word.toan),
          Rep(Not({":"}), 0, Unbounded), Lit(<<":">>), Rep(Whitespace, 0, Unbounded),
          Open(1), Rep(Digits, 1, 1), Rep(NumberChars, 0, Unbounded), Close(1)>>]

\* its _parse_number: non-breaking spaces and the white space around go, ','
\* becomes '.', every '.' goes; 0.0 when float() raises ValueError
invoice_parsers_VNPT_parse_number(value) ==
    With(PyFloat(Replace(Replace(Strip(Replace(value, "nbsp", <<>>)), ",", <<".">>),
                         ".", <<>>)),
         LAMBDA r : IF r.ok THEN Return(r.val) ELSE Return(0))

\* serial_no and invoice_no: group 1 of the match, stripped; "" with no match
invoice_parsers_VNPT_header_field(pattern, normalised) ==
    With(Search(pattern, normalised), LAMBDA match :
        IF match.ok THEN Strip(Group(normalised, match, 1)) ELSE <<>>)

\* invoice_date: date(int(year), int(month), int(day)).isoformat() of the
\* match, "" on ValueError and with no match
invoice_parsers_VNPT_date(normalised) ==
    With(Search(invoice_parsers_VNPT_patterns.date_pattern, normalised), LAMBDA date_match :
        IF /\ date_match.ok
           /\ IsDate(DigitsValue(Group(normalised, date_match, 3)),
                     DigitsValue(Group(normalised, date_match, 2)),
                     DigitsValue(Group(normalised, date_match, 1)))
        THEN IsoFormat(DigitsValue(Group(normalised, date_match, 3)),
                       DigitsValue(Group(normalised, date_match, 2)),
                       DigitsValue(Group(normalised, date_match, 1)))
        ELSE <<>>)

\* its parse_pdf from the extracted text on: the four label patterns only,
\* and one line as soon as the base, the VAT amount or the total label matched
invoice_parsers_VNPT_parse_pdf(text) ==
    With(Normalise(text), LAMBDA normalised :
    With(Search(invoice_parsers_VNPT_patterns.base_amount_pattern, normalised), LAMBDA base_match :
    With(Search(invoice_parsers_VNPT_patterns.vat_rate_pattern, normalised), LAMBDA vat_rate_match :
    With(Search(invoice_parsers_VNPT_patterns.vat_amount_pattern, normalised), LAMBDA vat_amount_match :
    With(Search(invoice_parsers_VNPT_patterns.total_amount_pattern, normalised), LAMBDA total_match :
    With(Figures(IF base_match.ok
                 THEN invoice_parsers_VNPT_parse_number(Group(normalised, base_match, 1))
                 ELSE Return(0),
                 IF vat_rate_match.ok THEN DigitsValue(Group(normalised, vat_rate_match, 1))
                 ELSE 0,
                 IF vat_amount_match.ok
                 THEN invoice_parsers_VNPT_parse_number(Group(normalised, vat_amount_match, 1))
                 ELSE Return(0),
                 IF total_match.ok
                 THEN invoice_parsers_VNPT_parse_number(Group(normalised, total_match, 1))
                 ELSE Return(0)), LAMBDA amounts :
        IF amounts.raised THEN ParseRaised
        ELSE Returned(
                 [invoice_no |-> invoice_parsers_VNPT_header_field(
                                     invoice_parsers_VNPT_patterns.number_pattern, normalised),
                  serial_no |-> invoice_parsers_VNPT_header_field(
                                    invoice_parsers_VNPT_patterns.serial_pattern, normalised),
                  invoice_date |-> invoice_parsers_VNPT_date(normalised),
                  lines |-> IF base_match.ok \/ vat_amount_match.ok \/ total_match.ok
                            THEN <<amounts.line>> ELSE <<>>])))))))

(***************************************************************************)
(* The Parser Registry.                                                    *)
(***************************************************************************)
ToUpper == ToUpperAZ
\* str.lower() of one character
LowerChar(ch) ==
    IF \E l \in DOMAIN ToUpper : ToUpper[l] = ch
    THEN CHOOSE l \in DOMAIN ToUpper : ToUpper[l] = ch
    ELSE ch
\* str.lower()
Lower(s) == [i \in 1..Len(s) |-> LowerChar(s[i])]

mobifone == <<"m", "o", "b", "i", "f", "o", "n", "e">>
viettel == <<"v", "i", "e", "t", "t", "e", "l">>
vnpt == <<"v", "n", "p", "t">>

NoError == ""
Resolved(module) == [raised |-> FALSE, error |-> NoError, module |-> module]
ImportError == [raised |-> TRUE, error |-> "ImportError", module |-> <<>>]

\* get_parser of the package without its strip()
get_parser_no_strip(provider) ==
    LET name == Lower(provider)
    IN  IF name \notin {mobifone, viettel, vnpt} THEN ImportError
        ELSE Resolved(<<"invoice2SAPdata.">> \o name \o <<"_parser">>)

\* get_parser of the package: the module it imports, or ImportError
get_parser(provider) ==
    LET name == Strip(Lower(provider))
    IN  IF name \notin {mobifone, viettel, vnpt} THEN ImportError
        ELSE Resolved(<<"invoice2SAPdata.">> \o name \o <<"_parser">>)

module_map == [name \in {mobifone, viettel, vnpt} |-> name \o <<"_parser">>]

\* get_parser of the invoice_parsers package
invoice_parsers_get_parser(provider) ==
    LET name == Strip(Lower(provider))
    IN  IF name \notin DOMAIN module_map THEN ImportError
        ELSE Resolved(module_map[name])

(***************************************************************************)
(* The state before any call.                                              *)
(***************************************************************************)
NotCalled == [called |-> FALSE, raised |-> FALSE, ret |-> 0]
Called(outcome) == [called |-> TRUE, raised |-> outcome.raised, ret |-> outcome.ret]

NumberIdle ==
    /\ token = <<>>
    /\ num_mobifone = NotCalled
    /\ num_viettel = NotCalled
    /\ num_vnpt = NotCalled

NotResolved == [called |-> FALSE, raised |-> FALSE, error |-> NoError, module |-> <<>>]
Outcome(r) == [called |-> TRUE, raised |-> r.raised, error |-> r.error, module |-> r.module]

RegistryIdle ==
    /\ provider_name = <<>>
    /\ gp = NotResolved
    /\ gp_ip = NotResolved
    /\ imported = {}

NoCall == [parser |-> "", raised |-> FALSE, invoice |-> EmptyInvoice]
CallOutcome(name, r) == [parser |-> name, raised |-> r.raised, invoice |-> r.invoice]

ParseIdle ==
    /\ pdf_text = <<>>
    /\ call = NoCall

\* the values a cell of a ledger row, or an argument, may hold: a str, a
\* float or None
Str(chars) == [type |-> "str", str |-> chars, num |-> 0]
Num(number) == [type |-> "float", str |-> <<>>, num |-> number]
None == [type |-> "NoneType", str |-> <<>>, num |-> 0]

TransformIdle ==
    /\ ledger_invoices = <<>>
    /\ document_date = None
    /\ today = <<>>
    /\ invoice_pos = 0
    /\ ledger_rows = <<>>

BatchIdle ==
    /\ selected = <<>>
    /\ uploaded_files = <<>>
    /\ parser_module = <<>>
    /\ pc = "idle"
    /\ file_index = 0
    /\ invoices = <<>>
    /\ st = <<>>
    /\ tmp_files = {}
    /\ log = <<>>
    /\ open_docs = {}

(***************************************************************************)
(* SpecNumber: one raw token, handed to each parser's _parse_number.       *)
(***************************************************************************)
Tokens == SeqsUpTo(TokenChars, MaxTokenLen) \cup SeqsUpTo(NumericChars, MaxNumLen)

InitNumber ==
    /\ token \in Tokens
    /\ RegistryIdle
    /\ ParseIdle
    /\ BatchIdle
    /\ TransformIdle
    /\ num_mobifone = NotCalled
    /\ num_viettel = NotCalled
    /\ num_vnpt = NotCalled

CallMobifoneParseNumber ==
    /\ ~num_mobifone.called
    /\ num_mobifone' = Called(Mobifone_parse_number(token))
    /\ UNCHANGED <<token, num_viettel, num_vnpt, regVars, parseVars, batchVars, transformVars>>

CallViettelParseNumber ==
    /\ ~num_viettel.called
    /\ num_viettel' = Called(Viettel_parse_number(token))
    /\ UNCHANGED <<token, num_mobifone, num_vnpt, regVars, parseVars, batchVars, transformVars>>

CallVNPTParseNumber ==
    /\ ~num_vnpt.called
    /\ num_vnpt' = Called(VNPT_parse_number(token))
    /\ UNCHANGED <<token, num_mobifone, num_viettel, regVars, parseVars, batchVars, transformVars>>

NextNumber ==
    \/ CallMobifoneParseNumber
    \/ CallViettelParseNumber
    \/ CallVNPTParseNumber

SpecNumber == InitNumber /\ [][NextNumber]_vars

(***************************************************************************)
(* Claims about the Number Normalizer (checked under SpecNumber).          *)
(***************************************************************************)
NumberCalls == {num_mobifone, num_viettel, num_vnpt}
AllCalled == \A c \in NumberCalls : c.called
HasDigit(s) == \E i \in 1..Len(s) : s[i] \in Digits
IsMonetaryToken(s) == AllIn(s, Digits \cup {".", ","})

\* C6: for every token composed only of digits, '.' and ',', each
\* _parse_number returns a non-negative float, and returns 0.0 when the token
\* holds no digit (the empty token included).
C6_NonNegativeOnMonetaryTokens ==
    IsMonetaryToken(token) =>
        \A c \in NumberCalls :
            c.called => /\ ~c.raised
                        /\ c.ret \in Nat
                        /\ (~HasDigit(token) => c.ret = 0)

C6_Witness ==
    /\ IsMonetaryToken(token) /\ HasDigit(token) /\ ~AllIn(token, Digits)
    /\ AllCalled
    /\ \A c \in NumberCalls : c.ret > 0

\* the cleaned string as C7 describes it: non-breaking spaces and surrounding
\* white space stripped, ',' replaced by '.', then every '.' removed
StatedCleaned(s) ==
    Replace(Replace(Strip(Replace(s, "nbsp", <<>>)), ",", <<".">>), ".", <<>>)
WithoutSpaces(s) == SelectSeq(s, LAMBDA c : c # " ")

\* C7 as stated: no _parse_number raises, whatever the input string; whenever
\* the cleaned string (non-breaking spaces and surrounding white space
\* stripped, ',' replaced by '.', then every '.' removed) fails the numeric
\* conversion, the result is 0.0.
C7_Original_FailureDegradesToZero ==
    \A c \in NumberCalls :
        c.called => /\ ~c.raised
                    /\ (~PyFloat(StatedCleaned(token)).ok => c.ret = 0)

\* C7 as amended: no _parse_number raises, whatever the input string.
\* Viettel's and VNPT's return 0.0 whenever the cleaned string (non-breaking
\* spaces and surrounding white space stripped, ',' replaced by '.', then
\* every '.' removed) fails the numeric conversion; Mobifone's removes every
\* ASCII space of the token as well and returns 0.0 whenever what is left
\* fails the conversion.
C7_FailureDegradesToZero ==
    /\ \A c \in NumberCalls : c.called => ~c.raised
    /\ num_mobifone.called =>
         (~PyFloat(StatedCleaned(WithoutSpaces(token))).ok => num_mobifone.ret = 0)
    /\ num_viettel.called =>
         (~PyFloat(StatedCleaned(token)).ok => num_viettel.ret = 0)
    /\ num_vnpt.called =>
         (~PyFloat(StatedCleaned(token)).ok => num_vnpt.ret = 0)

C7_Witness ==
    /\ token = <<"1", " ", "x">>
    /\ ~PyFloat(StatedCleaned(token)).ok
    /\ ~PyFloat(StatedCleaned(WithoutSpaces(token))).ok
    /\ AllCalled
    /\ \A c \in NumberCalls : ~c.raised /\ c.ret = 0

\* A token with a decimal comma: digits and '.' separators that start with a
\* digit, then one ',', then one fraction digit or more.
CommaAt(s) == CHOOSE i \in 1..Len(s) : s[i] = ","
IsDecimalCommaToken(s) ==
    /\ Cardinality({i \in 1..Len(s) : s[i] = ","}) = 1
    /\ CommaAt(s) > 1 /\ CommaAt(s) < Len(s)
    /\ s[1] \in Digits
    /\ AllIn(SubSeq(s, 1, CommaAt(s) - 1), Digits \cup {"."})
    /\ AllIn(SubSeq(s, CommaAt(s) + 1, Len(s)), Digits)
\* the digits of s, in their order
OnlyDigits(s) == SelectSeq(s, LAMBDA c : c \in Digits)
IntegerPart(s) == DigitsValue(OnlyDigits(SubSeq(s, 1, CommaAt(s) - 1)))

HasInnerSpace(s) == \E i \in 1..Len(Strip(s)) : Strip(s)[i] = " "

\* C9 as stated: the three _parse_number return the same value for every
\* raw token.
C9_Original_SameValue ==
    AllCalled => /\ num_mobifone.ret = num_viettel.ret
                 /\ num_viettel.ret = num_vnpt.ret

\* C9 as amended: Viettel's and VNPT's _parse_number return the same value
\* for every raw token, and Mobifone's returns that value too for every raw
\* token with no ASCII space inside it (tokens with non-breaking spaces,
\* surrounding white space and the empty token included).
C9_SameValueWithoutInnerSpace ==
    AllCalled => /\ num_viettel.ret = num_vnpt.ret
                 /\ (~HasInnerSpace(token) => num_mobifone.ret = num_viettel.ret)

C9_Witness ==
    /\ token = <<"1", "nbsp", "2">>
    /\ AllCalled
    /\ \A c \in NumberCalls : c.ret = 12

(***************************************************************************)
(* SpecRegistry: one provider name, handed to each get_parser.             *)
(***************************************************************************)
unknown_telco == <<"u", "n", "k", "n", "o", "w", "n", "_", "t", "e", "l", "c", "o">>
ProviderWords ==
    {mobifone, viettel, vnpt, unknown_telco, <<>>,
     <<"v", "n", "p">>, <<"v", "n", " ", "p", "t">>}
\* the word with the letters at the positions of up in upper case
WithUpper(word, up) ==
    [i \in 1..Len(word) |->
        IF i \in up /\ word[i] \in DOMAIN ToUpper THEN ToUpper[word[i]] ELSE word[i]]
Casings(word) ==
    {WithUpper(word, up) :
        up \in {u \in SUBSET (1..Len(word)) :
                    Cardinality(u) <= MaxUpper \/ u = 1..Len(word)}}
Pads == SeqsUpTo({" ", "nl", "nbsp"}, MaxPad)
ProviderNames ==
    {l \o w \o r : l \in Pads, r \in Pads, w \in UNION {Casings(x) : x \in ProviderWords}}

InitRegistry ==
    /\ provider_name \in ProviderNames
    /\ gp = NotResolved
    /\ gp_ip = NotResolved
    /\ imported = {}
    /\ NumberIdle
    /\ ParseIdle
    /\ BatchIdle
    /\ TransformIdle

CallGetParser ==
    /\ ~gp.called
    /\ gp' = Outcome(get_parser(provider_name))
    /\ imported' = IF get_parser(provider_name).raised THEN imported
                   ELSE imported \cup {get_parser(provider_name).module}
    /\ UNCHANGED <<provider_name, gp_ip, numVars, parseVars, batchVars, transformVars>>

CallInvoiceParsersGetParser ==
    /\ ~gp_ip.called
    /\ gp_ip' = Outcome(invoice_parsers_get_parser(provider_name))
    /\ imported' = IF invoice_parsers_get_parser(provider_name).raised THEN imported
                   ELSE imported \cup {invoice_parsers_get_parser(provider_name).module}
    /\ UNCHANGED <<provider_name, gp, numVars, parseVars, batchVars, transformVars>>

NextRegistry ==
    \/ CallGetParser
    \/ CallInvoiceParsersGetParser

SpecRegistry == InitRegistry /\ [][NextRegistry]_vars

(***************************************************************************)
(* Claims about the Parser Registry (checked under SpecRegistry).          *)
(***************************************************************************)
\* the provider name lower-cased and trimmed of surrounding white space
Canonical(name) == Strip(Lower(name))

MH_combo ==
    <<"1", "K", "2", "5", "D", "A", "A", " ", "0", "0", "1", "2", "3", "4",
      "5", " ", "K", "u00FD", " ", "h", "i", "u1EC7", "u", " ", "S", "u1ED1",
      "nl", "N", "g", "u00E0", "y", " ", "0", "5", " ", "t", "h", "u00E1",
      "n", "g", " ", "1", "2", " ", "n", "u0103", "m", " ", "2", "0", "2",
      "4">>
\* Ký hiệu: 1K25DAA\nSố (No.): 12\nNgày 31 tháng 2 năm 2024
MH_separate ==
    <<"K", "u00FD", " ", "h", "i", "u1EC7", "u", ":", " ", "1", "K", "2",
      "5", "D", "A", "A", "nl", "S", "u1ED1", " ", "(", "N", "o", ".", ")",
      ":", " ", "1", "2", "nl", "N", "g", "u00E0", "y", " ", "3", "1", " ",
      "t", "h", "u00E1", "n", "g", " ", "2", " ", "n", "u0103", "m", " ",
      "2", "0", "2", "4">>
\* Ký hiệu: AB Ngày 1 tháng 13 năm 2024
MH_short_serial ==
    <<"K", "u00FD", " ", "h", "i", "u1EC7", "u", ":", " ", "A", "B", " ",
      "N", "g", "u00E0", "y", " ", "1", " ", "t", "h", "u00E1", "n", "g",
      " ", "1", "3", " ", "n", "u0103", "m", " ", "2", "0", "2", "4">>
\* Số: 77  Ngày 29 tháng 2 năm 2024
MH_number_only ==
    <<"S", "u1ED1", ":", " ", "7", "7", " ", " ", "N", "g", "u00E0", "y",
      " ", "2", "9", " ", "t", "h", "u00E1", "n", "g", " ", "2", " ", "n",
      "u0103", "m", " ", "2", "0", "2", "4">>
\* KÝ HIỆU (Serial) 1K25 Ngày 05 tháng 12 năm 0000
MH_year_zero ==
    <<"K", "u00DD", " ", "H", "I", "u1EC6", "U", " ", "(", "S", "e", "r",
      "i", "a", "l", ")", " ", "1", "K", "2", "5", " ", "N", "g", "u00E0",
      "y", " ", "0", "5", " ", "t", "h", "u00E1", "n", "g", " ", "1", "2",
      " ", "n", "u0103", "m", " ", "0", "0", "0", "0">>
\* 11 1 10% 10 Cước
ML_a ==
    <<"1", "1", " ", "1", " ", "1", "0", "%", " ", "1", "0", " ", "C",
      "u01B0", "u1EDB", "c">>
\* 1.1 1 10% 1,0 Cước
ML_a_again ==
    <<"1", ".", "1", " ", "1", " ", "1", "0", "%", " ", "1", ",", "0", " ",
      "C", "u01B0", "u1EDB", "c">>
\* 22 2 10% 20 Cước
ML_b ==
    <<"2", "2", " ", "2", " ", "1", "0", "%", " ", "2", "0", " ", "C",
      "u01B0", "u1EDB", "c">>
RECURSIVE JoinLines(_)
\* the fragments, one per line
JoinLines(frags) ==
    IF frags = <<>> THEN <<>>
    ELSE IF Len(frags) = 1 THEN frags[1]
    ELSE frags[1] \o <<"nl">> \o JoinLines(Tail(frags))

\* a header, or none, then n charge rows at most
TextsOf(headers, rows, n) ==
    {JoinLines(SelectSeq(<<h>> \o body, LAMBDA f : f # <<>>)) :
        h \in headers \cup {<<>>}, body \in SeqsUpTo(rows, n)}

MobifoneTexts ==
    TextsOf({MH_combo, MH_separate, MH_short_serial, MH_number_only, MH_year_zero},
            {ML_a, ML_a_again, ML_b}, MaxHeaderRows)
        \cup TextsOf({MH_combo}, {ML_a, ML_a_again, ML_b}, MaxRows)

\* Ký hiệu: 1K25DAB\nSố: 0012345\nNgày lập: 05/12/2024
VTH_slash ==
    <<"K", "u00FD", " ", "h", "i", "u1EC7", "u", ":", " ", "1", "K", "2",
      "5", "D", "A", "B", "nl", "S", "u1ED1", ":", " ", "0", "0", "1", "2",
      "3", "4", "5", "nl", "N", "g", "u00E0", "y", " ", "l", "u1EAD", "p",
      ":", " ", "0", "5", "/", "1", "2", "/", "2", "0", "2", "4">>
\* Ký hiệu 1K25 Số 7 Ngày 05 tháng 12 năm 2024
VTH_text ==
    <<"K", "u00FD", " ", "h", "i", "u1EC7", "u", " ", "1", "K", "2", "5",
      " ", "S", "u1ED1", " ", "7", " ", "N", "g", "u00E0", "y", " ", "0",
      "5", " ", "t", "h", "u00E1", "n", "g", " ", "1", "2", " ", "n",
      "u0103", "m", " ", "2", "0", "2", "4">>
\* Ngày lập: 31/02/2024 Ngày 05 tháng 12 năm 2024
VTH_bad_slash ==
    <<"N", "g", "u00E0", "y", " ", "l", "u1EAD", "p", ":", " ", "3", "1",
      "/", "0", "2", "/", "2", "0", "2", "4", " ", "N", "g", "u00E0", "y",
      " ", "0", "5", " ", "t", "h", "u00E1", "n", "g", " ", "1", "2", " ",
      "n", "u0103", "m", " ", "2", "0", "2", "4">>
\* Ngày lập: 31/02/2024 Ngày 05/12/2024
VTH_two_slashes ==
    <<"N", "g", "u00E0", "y", " ", "l", "u1EAD", "p", ":", " ", "3", "1",
      "/", "0", "2", "/", "2", "0", "2", "4", " ", "N", "g", "u00E0", "y",
      " ", "0", "5", "/", "1", "2", "/", "2", "0", "2", "4">>
\* Ngày 05 tháng 12 năm 2024 Ngày lập: 06/12/2024
VTH_text_then_slash ==
    <<"N", "g", "u00E0", "y", " ", "0", "5", " ", "t", "h", "u00E1", "n",
      "g", " ", "1", "2", " ", "n", "u0103", "m", " ", "2", "0", "2", "4",
      " ", "N", "g", "u00E0", "y", " ", "l", "u1EAD", "p", ":", " ", "0",
      "6", "/", "1", "2", "/", "2", "0", "2", "4">>
\* Số: 12 Ngày 1 tháng 13 năm 2024
VTH_bad_text ==
    <<"S", "u1ED1", ":", " ", "1", "2", " ", "N", "g", "u00E0", "y", " ",
      "1", " ", "t", "h", "u00E1", "n", "g", " ", "1", "3", " ", "n",
      "u0103", "m", " ", "2", "0", "2", "4">>
\* Ký hiệu Số: 123 Ngày 05/12/0000
VTH_label_only ==
    <<"K", "u00FD", " ", "h", "i", "u1EC7", "u", " ", "S", "u1ED1", ":", " ",
      "1", "2", "3", " ", "N", "g", "u00E0", "y", " ", "0", "5", "/", "1",
      "2", "/", "0", "0", "0", "0">>
\* 10 10% 1 11
VTL_a ==
    <<"1", "0", " ", "1", "0", "%", " ", "1", " ", "1", "1">>
\* 1.0 10% 1 1,1
VTL_a_again ==
    <<"1", ".", "0", " ", "1", "0", "%", " ", "1", " ", "1", ",", "1">>
\* 20 10% 2 22
VTL_b ==
    <<"2", "0", " ", "1", "0", "%", " ", "2", " ", "2", "2">>
\* Ký hiệu (Serial): 1K25THA\nSố (No.): 3802879\nNgày (Date) 05 tháng (Month) 12 năm (Year) 2024
VNH_full ==
    <<"K", "u00FD", " ", "h", "i", "u1EC7", "u", " ", "(", "S", "e", "r",
      "i", "a", "l", ")", ":", " ", "1", "K", "2", "5", "T", "H", "A", "nl",
      "S", "u1ED1", " ", "(", "N", "o", ".", ")", ":", " ", "3", "8", "0",
      "2", "8", "7", "9", "nl", "N", "g", "u00E0", "y", " ", "(", "D", "a",
      "t", "e", ")", " ", "0", "5", " ", "t", "h", "u00E1", "n", "g", " ",
      "(", "M", "o", "n", "t", "h", ")", " ", "1", "2", " ", "n", "u0103",
      "m", " ", "(", "Y", "e", "a", "r", ")", " ", "2", "0", "2", "4">>
\* Ký hiệu: AB1 Số: 5 Ngày 31 tháng 2 năm 2024
VNH_bad_day ==
    <<"K", "u00FD", " ", "h", "i", "u1EC7", "u", ":", " ", "A", "B", "1",
      " ", "S", "u1ED1", ":", " ", "5", " ", "N", "g", "u00E0", "y", " ",
      "3", "1", " ", "t", "h", "u00E1", "n", "g", " ", "2", " ", "n",
      "u0103", "m", " ", "2", "0", "2", "4">>
\* Ngày 1 tháng 13 năm 2024
VNH_bad_month ==
    <<"N", "g", "u00E0", "y", " ", "1", " ", "t", "h", "u00E1", "n", "g",
      " ", "1", "3", " ", "n", "u0103", "m", " ", "2", "0", "2", "4">>
\* Số 9 Ngày 05/12/0000\nCộng tiền hàng (Total): 0
VNH_year_zero ==
    <<"S", "u1ED1", " ", "9", " ", "N", "g", "u00E0", "y", " ", "0", "5",
      "/", "1", "2", "/", "0", "0", "0", "0", "nl", "C", "u1ED9", "n", "g",
      " ", "t", "i", "u1EC1", "n", " ", "h", "u00E0", "n", "g", " ", "(",
      "T", "o", "t", "a", "l", ")", ":", " ", "0">>
\* Cộng tiền hàng: 100
VNL_base ==
    <<"C", "u1ED9", "n", "g", " ", "t", "i", "u1EC1", "n", " ", "h", "u00E0",
      "n", "g", ":", " ", "1", "0", "0">>
\* Thuế suất thuế GTGT: 10%
VNL_rate ==
    <<"T", "h", "u", "u1EBF", " ", "s", "u", "u1EA5", "t", " ", "t", "h",
      "u", "u1EBF", " ", "G", "T", "G", "T", ":", " ", "1", "0", "%">>
\* Tiền thuế GTGT: 10\nTổng cộng tiền thanh toán: 110
VNL_vat_total ==
    <<"T", "i", "u1EC1", "n", " ", "t", "h", "u", "u1EBF", " ", "G", "T",
      "G", "T", ":", " ", "1", "0", "nl", "T", "u1ED5", "n", "g", " ", "c",
      "u1ED9", "n", "g", " ", "t", "i", "u1EC1", "n", " ", "t", "h", "a",
      "n", "h", " ", "t", "o", "u00E1", "n", ":", " ", "1", "1", "0">>
\* 10 110
VNL_tail ==
    <<"1", "0", " ", "1", "1", "0">>
\* Cộng tiền hàng: 0\nTiền thuế GTGT: 0\nTổng cộng tiền thanh toán: 0
VN_zero_summary ==
    <<"C", "u1ED9", "n", "g", " ", "t", "i", "u1EC1", "n", " ", "h",
      "u00E0", "n", "g", ":", " ", "0", "nl", "T", "i", "u1EC1", "n", " ",
      "t", "h", "u", "u1EBF", " ", "G", "T", "G", "T", ":", " ", "0", "nl",
      "T", "u1ED5", "n", "g", " ", "c", "u1ED9", "n", "g", " ", "t", "i",
      "u1EC1", "n", " ", "t", "h", "a", "n", "h", " ", "t", "o", "u00E1",
      "n", ":", " ", "0">>
\* Cộng tiền hàng: 47.272\nThuế suất thuế GTGT: 10%\nTiền thuế GTGT: 4.727\n
\* Tổng cộng tiền thanh toán: 51.999
VN_separate_lines ==
    <<"C", "u1ED9", "n", "g", " ", "t", "i", "u1EC1", "n", " ", "h",
      "u00E0", "n", "g", ":", " ", "4", "7", ".", "2", "7", "2", "nl", "T",
      "h", "u", "u1EBF", " ", "s", "u", "u1EA5", "t", " ", "t", "h", "u",
      "u1EBF", " ", "G", "T", "G", "T", ":", " ", "1", "0", "%", "nl", "T",
      "i", "u1EC1", "n", " ", "t", "h", "u", "u1EBF", " ", "G", "T", "G",
      "T", ":", " ", "4", ".", "7", "2", "7", "nl", "T", "u1ED5", "n", "g",
      " ", "c", "u1ED9", "n", "g", " ", "t", "i", "u1EC1", "n", " ", "t",
      "h", "a", "n", "h", " ", "t", "o", "u00E1", "n", ":", " ", "5", "1",
      ".", "9", "9", "9">>
\* Cộng tiền hàng: 100\n200 Thuế suất thuế GTGT: 10%\n20 220\nTiền thuế GTGT: 10\n
\* Tổng cộng tiền thanh toán: 110
VN_block_and_labels ==
    <<"C", "u1ED9", "n", "g", " ", "t", "i", "u1EC1", "n", " ", "h",
      "u00E0", "n", "g", ":", " ", "1", "0", "0", "nl", "2", "0", "0", " ",
      "T", "h", "u", "u1EBF", " ", "s", "u", "u1EA5", "t", " ", "t", "h",
      "u", "u1EBF", " ", "G", "T", "G", "T", ":", " ", "1", "0", "%", "nl",
      "2", "0", " ", "2", "2", "0", "nl", "T", "i", "u1EC1", "n", " ", "t",
      "h", "u", "u1EBF", " ", "G", "T", "G", "T", ":", " ", "1", "0", "nl",
      "T", "u1ED5", "n", "g", " ", "c", "u1ED9", "n", "g", " ", "t", "i",
      "u1EC1", "n", " ", "t", "h", "a", "n", "h", " ", "t", "o", "u00E1",
      "n", ":", " ", "1", "1", "0">>
\* Ký hiệu: 1K25DAB
VT_serial_line ==
    <<"K", "u00FD", " ", "h", "i", "u1EC7", "u", ":", " ", "1", "K", "2", "5", "D", "A", "B">>
\* Số: 123456
VT_number_line ==
    <<"S", "u1ED1", ":", " ", "1", "2", "3", "4", "5", "6">>
\* Ngày lập: 05/12/2024
VT_date_line ==
    <<"N", "g", "u00E0", "y", " ", "l", "u1EAD", "p", ":", " ", "0", "5", "/", "1", "2", "/", "2", "0", "2", "4">>
\* the three lines in every order, and in the written order above a charge row
ViettelExampleTexts ==
    {JoinLines(p) :
        p \in {q \in [1..3 -> {VT_serial_line, VT_number_line, VT_date_line}] :
                  \A i, j \in 1..3 : i # j => q[i] # q[j]}}
        \cup {JoinLines(<<VT_serial_line, VT_number_line, VT_date_line, VTL_a>>)}

ViettelTexts ==
    TextsOf({VTH_slash, VTH_text, VTH_bad_slash, VTH_bad_text, VTH_label_only},
            {VTL_a, VTL_a_again, VTL_b}, MaxHeaderRows)
        \cup TextsOf({VTH_slash}, {VTL_a, VTL_a_again, VTL_b}, MaxRows)
        \cup ViettelExampleTexts
        \cup {VTH_two_slashes, VTH_text_then_slash}

VNPTTexts ==
    TextsOf({VNH_full, VNH_bad_day, VNH_bad_month, VNH_year_zero},
            {VNL_base, VNL_rate, VNL_vat_total, VNL_tail}, MaxHeaderRows)
        \cup TextsOf({VNH_full}, {VNL_base, VNL_rate, VNL_vat_total, VNL_tail}, MaxRows)
        \cup {VN_zero_summary, VN_separate_lines, VN_block_and_labels,
              JoinLines(<<VNH_full, VN_separate_lines>>)}

(***************************************************************************)
(* SpecParse: parse_pdf of a provider parser is called on a document whose *)
(* text extract_text returns.                                              *)
(***************************************************************************)
InitParse ==
    /\ ParseIdle
    /\ NumberIdle
    /\ RegistryIdle
    /\ BatchIdle
    /\ TransformIdle

MobifoneParsePdf ==
    /\ call.parser = ""
    /\ \E t \in MobifoneTexts :
          /\ pdf_text' = t
          /\ call' = CallOutcome("mobifone", Mobifone_parse_pdf(t))
    /\ UNCHANGED <<numVars, regVars, batchVars, transformVars>>

ViettelParsePdf ==
    /\ call.parser = ""
    /\ \E t \in ViettelTexts :
          /\ pdf_text' = t
          /\ call' = CallOutcome("viettel", Viettel_parse_pdf(t))
    /\ UNCHANGED <<numVars, regVars, batchVars, transformVars>>

InvoiceParsersViettelParsePdf ==
    /\ call.parser = ""
    /\ \E t \in ViettelTexts :
          /\ pdf_text' = t
          /\ call' = CallOutcome("invoice_parsers.viettel", invoice_parsers_Viettel_parse_pdf(t))
    /\ UNCHANGED <<numVars, regVars, batchVars, transformVars>>

VNPTParsePdf ==
    /\ call.parser = ""
    /\ \E t \in VNPTTexts :
          /\ pdf_text' = t
          /\ call' = CallOutcome("vnpt", VNPT_parse_pdf(t))
    /\ UNCHANGED <<numVars, regVars, batchVars, transformVars>>

InvoiceParsersVNPTParsePdf ==
    /\ call.parser = ""
    /\ \E t \in VNPTTexts :
          /\ pdf_text' = t
          /\ call' = CallOutcome("invoice_parsers.vnpt", invoice_parsers_VNPT_parse_pdf(t))
    /\ UNCHANGED <<numVars, regVars, batchVars, transformVars>>

NextParse ==
    \/ MobifoneParsePdf
    \/ ViettelParsePdf
    \/ InvoiceParsersViettelParsePdf
    \/ VNPTParsePdf
    \/ InvoiceParsersVNPTParsePdf

SpecParse == InitParse /\ [][NextParse]_vars

(***************************************************************************)
(* Claims about the provider parsers (checked under SpecParse).            *)
(***************************************************************************)
Parsed == call.parser # ""
Deduplicating == {"mobifone", "viettel", "invoice_parsers.viettel"}
InvoiceKeys == {"invoice_no", "serial_no", "invoice_date", "lines"}
LineFields == {"base_amount", "vat_rate", "vat_amount", "total_amount"}
IsList(x) == DOMAIN x = 1..Len(x)

\* the number pattern of the called parser finds an invoice number in t
NumberFound(t) ==
    CASE call.parser = "mobifone" ->
            \/ Search(Mobifone_serial_number_combo_pattern, t).ok
            \/ Search(Mobifone_number_pattern, t).ok
      [] call.parser = "viettel" -> Search(Viettel_number_pattern, t).ok
      [] call.parser = "invoice_parsers.viettel" ->
            Search(invoice_parsers_Viettel_number_pattern, t).ok
      [] call.parser = "vnpt" -> Search(VNPT_number_pattern, t).ok
      [] call.parser = "invoice_parsers.vnpt" ->
            Search(invoice_parsers_VNPT_patterns.number_pattern, t).ok

\* the serial pattern of the called parser finds a serial in t
SerialFound(t) ==
    CASE call.parser = "mobifone" ->
            \/ Search(Mobifone_serial_number_combo_pattern, t).ok
            \/ Search(Mobifone_serial_pattern, t).ok
      [] call.parser = "viettel" -> Search(Viettel_serial_pattern, t).ok
      [] call.parser = "invoice_parsers.viettel" ->
            Search(invoice_parsers_Viettel_serial_pattern, t).ok
      [] call.parser = "vnpt" -> Search(VNPT_serial_pattern, t).ok
      [] call.parser = "invoice_parsers.vnpt" ->
            Search(invoice_parsers_VNPT_patterns.serial_pattern, t).ok

\* C1: for every input text the Invoice a parser returns has the four keys
\* invoice_no, serial_no, invoice_date and lines; invoice_no and serial_no
\* are strings, the empty string when their pattern does not match, and
\* lines is a list.
C1_InvoiceHasItsFourKeys ==
    Parsed =>
        /\ ~call.raised
        /\ DOMAIN call.invoice = InvoiceKeys
        /\ call.invoice.invoice_no \in Seq(Alphabet)
        /\ call.invoice.serial_no \in Seq(Alphabet)
        /\ IsList(call.invoice.lines)
        /\ LET t == Normalise(pdf_text)
           IN  /\ NumberFound(t) \/ call.invoice.invoice_no = <<>>
               /\ SerialFound(t) \/ call.invoice.serial_no = <<>>

C1_Witness ==
    /\ call.parser = "viettel"
    /\ pdf_text = VTH_bad_text
    /\ ~SerialFound(Normalise(pdf_text))
    /\ call.invoice.serial_no = <<>>
    /\ call.invoice.invoice_no = <<"1", "2">>
    /\ call.invoice.lines = <<>>

\* s is YYYY-MM-DD and names a day of the calendar
IsIsoDate(s) ==
    /\ Len(s) = 10
    /\ s[5] = "-" /\ s[8] = "-"
    /\ \A i \in {1, 2, 3, 4, 6, 7, 9, 10} : s[i] \in Digits
    /\ IsDate(DigitsValue(SubSeq(s, 1, 4)), DigitsValue(SubSeq(s, 6, 7)),
              DigitsValue(SubSeq(s, 9, 10)))

\* the match of the date pattern the called parser goes by
DateMatch(t) ==
    CASE call.parser = "mobifone" -> Search(Mobifone_date_pattern, t)
      [] call.parser = "viettel" ->
            LET slash == Search(Viettel_date_slash_pattern, t)
            IN  IF slash.ok THEN slash ELSE Search(Viettel_date_text_pattern, t)
      [] call.parser = "invoice_parsers.viettel" ->
            LET slash == Search(invoice_parsers_Viettel_date_slash_pattern, t)
            IN  IF slash.ok THEN slash
                ELSE Search(invoice_parsers_Viettel_date_text_pattern, t)
      [] call.parser = "vnpt" -> Search(VNPT_date_pattern, t)
      [] call.parser = "invoice_parsers.vnpt" ->
            Search(invoice_parsers_VNPT_patterns.date_pattern, t)

\* the day, month and year digits of the match form no date of the calendar
MatchedNoCalendarDate(t) ==
    LET m == DateMatch(t)
    IN  /\ m.ok
        /\ ~IsDate(DigitsValue(Group(t, m, 3)), DigitsValue(Group(t, m, 2)),
                   DigitsValue(Group(t, m, 1)))

\* C2: for every input text and every parser, invoice_date is the empty
\* string or a YYYY-MM-DD string that names a day of the calendar; when the
\* date pattern matches digits that form no such day, it is the empty string.
C2_InvoiceDateEmptyOrValid ==
    Parsed =>
        /\ ~call.raised
        /\ call.invoice.invoice_date = <<>> \/ IsIsoDate(call.invoice.invoice_date)
        /\ call.invoice.invoice_date # <<>> => ~MatchedNoCalendarDate(Normalise(pdf_text))

C2_Witness ==
    /\ call.parser = "mobifone"
    /\ pdf_text = MH_separate
    /\ MatchedNoCalendarDate(Normalise(pdf_text))
    /\ Group(Normalise(pdf_text), DateMatch(Normalise(pdf_text)), 1) = <<"3", "1">>
    /\ call.invoice.invoice_date = <<>>

\* C3: every ChargeLine of a returned Invoice has the four fields
\* base_amount, vat_rate, vat_amount and total_amount; the three amounts are
\* non-negative numbers and vat_rate is a non-negative integer; a figure
\* whose label VNPT's patterns do not find is 0.
C3_ChargeLineFields ==
    Parsed =>
        /\ ~call.raised
        /\ \A i \in 1..Len(call.invoice.lines) :
              /\ DOMAIN call.invoice.lines[i] = LineFields
              /\ \A f \in LineFields : call.invoice.lines[i][f] \in Nat
        /\ (call.parser = "vnpt" /\ call.invoice.lines # <<>>) =>
              LET t == Normalise(pdf_text)
                  line == call.invoice.lines[1]
              IN  Search(VNPT_amount_block_pattern, t).ok
                  \/ /\ Search(VNPT_base_amount_pattern, t).ok \/ line.base_amount = 0
                     /\ Search(VNPT_vat_rate_pattern, t).ok \/ line.vat_rate = 0
                     /\ Search(VNPT_vat_amount_pattern, t).ok \/ line.vat_amount = 0
                     /\ Search(VNPT_total_amount_pattern, t).ok \/ line.total_amount = 0

C3_Witness ==
    /\ call.parser = "vnpt"
    /\ pdf_text = VNL_base
    /\ ~Search(VNPT_vat_rate_pattern, Normalise(pdf_text)).ok
    /\ call.invoice.lines = <<[base_amount |-> 100, vat_rate |-> 0,
                               vat_amount |-> 0, total_amount |-> 0]>>

\* C4: for every input text, no two entries of the lines the Mobifone parser
\* or a Viettel parser returns have equal (base_amount, vat_rate, vat_amount,
\* total_amount) 4-tuples.
C4_NoDuplicateLines ==
    call.parser \in Deduplicating =>
        /\ ~call.raised
        /\ \A i, j \in 1..Len(call.invoice.lines) :
              i # j => \E f \in LineFields :
                          call.invoice.lines[i][f] # call.invoice.lines[j][f]

C4_Witness ==
    /\ call.parser = "mobifone"
    /\ pdf_text = JoinLines(<<ML_a, ML_a_again, ML_b>>)
    /\ Len(FindIter(Mobifone_line_pattern, Normalise(pdf_text))) = 3
    /\ Len(call.invoice.lines) = 2

\* the charge lines the called parser captures from t, in the order of t
Captured(t) ==
    LET raw == CASE call.parser = "mobifone" -> Mobifone_raw_lines(t)
                 [] call.parser = "viettel" -> Viettel_raw_lines(t)
                 [] call.parser = "invoice_parsers.viettel" ->
                        invoice_parsers_Viettel_raw_lines(t)
    IN  [i \in 1..Len(raw) |-> raw[i].line]

\* where a tuple of raw occurs for the first time
FirstAt(raw) == {i \in 1..Len(raw) : \A j \in 1..(i - 1) : raw[j] # raw[i]}
\* the first occurrences of raw, in the order of raw
FirstOccurrences(raw) ==
    LET first == FirstAt(raw)
    IN  [k \in 1..Cardinality(first) |->
            raw[CHOOSE i \in first : Cardinality({j \in first : j <= i}) = k]]

\* C5: the Line Deduplicator keeps, for every distinct 4-tuple among the
\* captured lines, its first occurrence and no other, in the order of the
\* captured sequence.
C5_FirstOccurrenceKept ==
    call.parser \in Deduplicating =>
        /\ ~call.raised
        /\ LET captured == Captured(Normalise(pdf_text))
           IN  call.invoice.lines = FirstOccurrences(captured)

C5_Witness ==
    /\ call.parser = "viettel"
    /\ pdf_text = JoinLines(<<VTL_a, VTL_b, VTL_a_again>>)
    /\ LET captured == Captured(Normalise(pdf_text))
       IN  Len(captured) = 3 /\ captured[1] = captured[3] /\ captured[1] # captured[2]
    /\ call.invoice.lines =
          <<[base_amount |-> 10, vat_rate |-> 10, vat_amount |-> 1, total_amount |-> 11],
            [base_amount |-> 20, vat_rate |-> 10, vat_amount |-> 2, total_amount |-> 22]>>

VNPTParsers == {"vnpt", "invoice_parsers.vnpt"}

\* the charge-line pattern of the called parser finds a line in t
LineFound(t) ==
    CASE call.parser = "mobifone" -> Search(Mobifone_line_pattern, t).ok
      [] call.parser = "viettel" -> Search(Viettel_line_pattern, t).ok
      [] call.parser = "invoice_parsers.viettel" ->
            Search(invoice_parsers_Viettel_line_pattern, t).ok

\* one of the summary patterns of the called VNPT parser finds a figure in t
SummaryFound(t) ==
    CASE call.parser = "vnpt" ->
            \/ Search(VNPT_amount_block_pattern, t).ok
            \/ Search(VNPT_base_amount_pattern, t).ok
            \/ Search(VNPT_vat_rate_pattern, t).ok
            \/ Search(VNPT_vat_amount_pattern, t).ok
            \/ Search(VNPT_total_amount_pattern, t).ok
      [] call.parser = "invoice_parsers.vnpt" ->
            \/ Search(invoice_parsers_VNPT_patterns.base_amount_pattern, t).ok
            \/ Search(invoice_parsers_VNPT_patterns.vat_rate_pattern, t).ok
            \/ Search(invoice_parsers_VNPT_patterns.vat_amount_pattern, t).ok
            \/ Search(invoice_parsers_VNPT_patterns.total_amount_pattern, t).ok

\* C11: once the text is extracted, parse_pdf of every provider parser
\* returns an Invoice and never raises; a field whose pattern does not match
\* keeps its zero value (empty string, empty list) and a field whose pattern
\* does match is populated, whatever the other patterns do.
C11_NeverRaisesPartiallyPopulated ==
    Parsed =>
        With(Normalise(pdf_text), LAMBDA t :
            /\ ~call.raised
            /\ NumberFound(t) <=> call.invoice.invoice_no # <<>>
            /\ SerialFound(t) <=> call.invoice.serial_no # <<>>
            /\ ~DateMatch(t).ok => call.invoice.invoice_date = <<>>
            /\ (DateMatch(t).ok /\ ~MatchedNoCalendarDate(t))
                  => call.invoice.invoice_date # <<>>
            /\ call.parser \in Deduplicating =>
                  (LineFound(t) <=> call.invoice.lines # <<>>)
            /\ (call.parser \in VNPTParsers /\ ~SummaryFound(t))
                  => call.invoice.lines = <<>>)

\* a Mobifone text with charge lines and nothing else: no date, no number
C11_Witness ==
    /\ call.parser = "mobifone"
    /\ pdf_text = ML_a
    /\ ~DateMatch(Normalise(pdf_text)).ok
    /\ ~call.raised
    /\ call.invoice.invoice_date = <<>>
    /\ call.invoice.invoice_no = <<>>
    /\ call.invoice.lines =
          <<[base_amount |-> 10, vat_rate |-> 10, vat_amount |-> 1, total_amount |-> 11]>>

\* one of the three amounts of the line is not zero
SomeAmount(line) ==
    line.base_amount # 0 \/ line.vat_amount # 0 \/ line.total_amount # 0

\* C12: a VNPT parser appends a charge line only if at least one of
\* base_amount, vat_amount and total_amount is non-zero; summary figures that
\* are all found and all zero, or a VAT rate alone, yield lines = [] as a
\* text with no summary does.
C12_LineOnlyIfSomeAmount ==
    call.parser \in VNPTParsers =>
        /\ ~call.raised
        /\ \A i \in 1..Len(call.invoice.lines) : SomeAmount(call.invoice.lines[i])

\* VNPTInvoiceParser of invoice_parsers on the three zero summary lines
C12_Witness ==
    /\ call.parser = "invoice_parsers.vnpt"
    /\ pdf_text = VN_zero_summary
    /\ call.invoice.lines =
          <<[base_amount |-> 0, vat_rate |-> 0, vat_amount |-> 0, total_amount |-> 0]>>

\* C13: for every input text, the Invoice a VNPT parser returns has at most
\* one ChargeLine in lines.
C13_AtMostOneLine ==
    call.parser \in VNPTParsers => ~call.raised /\ Len(call.invoice.lines) <= 1

\* a text where the block pattern and every label pattern find figures
C13_Witness ==
    /\ call.parser = "vnpt"
    /\ pdf_text = VN_block_and_labels
    /\ Search(VNPT_amount_block_pattern, Normalise(pdf_text)).ok
    /\ Search(VNPT_base_amount_pattern, Normalise(pdf_text)).ok
    /\ Search(VNPT_total_amount_pattern, Normalise(pdf_text)).ok
    /\ Len(call.invoice.lines) = 1

\* the amount a captured token [0-9][0-9.,]* stands for: its digits
TokenAmount(captured) == DigitsValue(OnlyDigits(captured))

\* the figure of a label: group 1 of its pattern's first match in t, 0 when
\* the pattern does not match
LabelAmount(pattern, t) ==
    With(Search(pattern, t), LAMBDA m :
        IF m.ok THEN TokenAmount(Group(t, m, 1)) ELSE 0)

\* the four figures by the two steps: the block's captures, else the labels'
TwoStepFigures(t) ==
    With(Search(VNPT_amount_block_pattern, t), LAMBDA b :
        IF b.ok
        THEN [base_amount |-> TokenAmount(Group(t, b, 1)),
              vat_rate |-> TokenAmount(Group(t, b, 2)),
              vat_amount |-> TokenAmount(Group(t, b, 3)),
              total_amount |-> TokenAmount(Group(t, b, 4))]
        ELSE [base_amount |-> LabelAmount(VNPT_base_amount_pattern, t),
              vat_rate |-> LabelAmount(VNPT_vat_rate_pattern, t),
              vat_amount |-> LabelAmount(VNPT_vat_amount_pattern, t),
              total_amount |-> LabelAmount(VNPT_total_amount_pattern, t)])

\* C14: the VNPT parser takes base, rate, VAT amount and total from the four
\* captures of the block pattern when it matches, whatever the labels say;
\* only when the block pattern does not match is each figure taken from its
\* own label pattern, 0 for a label that does not match, the other three
\* unaffected.
C14_BlockThenLabels ==
    call.parser = "vnpt" =>
        /\ ~call.raised
        /\ \A i \in 1..Len(call.invoice.lines) :
              call.invoice.lines[i] = TwoStepFigures(Normalise(pdf_text))
        /\ SomeAmount(TwoStepFigures(Normalise(pdf_text))) => call.invoice.lines # <<>>

\* the block pattern and the labels both match and say different things
C14_Witness ==
    /\ call.parser = "vnpt"
    /\ pdf_text = VN_block_and_labels
    /\ Search(VNPT_amount_block_pattern, Normalise(pdf_text)).ok
    /\ LabelAmount(VNPT_base_amount_pattern, Normalise(pdf_text)) = 100
    /\ LabelAmount(VNPT_total_amount_pattern, Normalise(pdf_text)) = 110
    /\ call.invoice.lines =
          <<[base_amount |-> 200, vat_rate |-> 10, vat_amount |-> 20, total_amount |-> 220]>>

\* the block pattern fails and one label alone is found
C14_WitnessFallback ==
    /\ call.parser = "vnpt"
    /\ pdf_text = JoinLines(<<VNL_base, VNL_rate>>)
    /\ ~Search(VNPT_amount_block_pattern, Normalise(pdf_text)).ok
    /\ call.invoice.lines =
          <<[base_amount |-> 100, vat_rate |-> 10, vat_amount |-> 0, total_amount |-> 0]>>

\* the four summary lines of the example, alone and under a header
SeparateLinesTexts == {VN_separate_lines, JoinLines(<<VNH_full, VN_separate_lines>>)}

\* C15: on 'Cộng tiền hàng: 47.272', 'Thuế suất thuế GTGT: 10%', 'Tiền thuế
\* GTGT: 4.727' and 'Tổng cộng tiền thanh toán: 51.999' on separate lines the
\* block pattern does not match and the VNPT parser returns exactly one
\* ChargeLine, with base_amount 47272.0, vat_rate 10, vat_amount 4727.0 and
\* total_amount 51999.0.
C15_SeparateLinesExample ==
    (call.parser = "vnpt" /\ pdf_text \in SeparateLinesTexts) =>
        /\ ~call.raised
        /\ ~Search(VNPT_amount_block_pattern, Normalise(pdf_text)).ok
        /\ call.invoice.lines =
              <<[base_amount |-> 47272, vat_rate |-> 10,
                 vat_amount |-> 4727, total_amount |-> 51999]>>

C15_Witness ==
    /\ call.parser = "vnpt"
    /\ pdf_text = VN_separate_lines
    /\ Len(call.invoice.lines) = 1
    /\ call.invoice.lines[1].base_amount = 47272

\* group g of the first match of pattern in t, stripped; "" without a match
FirstCapture(pattern, t, g) ==
    With(Search(pattern, t), LAMBDA m : IF m.ok THEN Strip(Group(t, m, g)) ELSE <<>>)

\* C16: the Mobifone parser takes serial_no and invoice_no together from the
\* combined '<serial> <number> Ký hiệu Số' pattern when it matches, whatever
\* the separate patterns would find; only when it fails is each of the two
\* taken from its own simpler pattern, the empty string when that one fails.
C16_CombinedThenSeparate ==
    call.parser = "mobifone" =>
        With(Normalise(pdf_text), LAMBDA t :
            /\ ~call.raised
            /\ IF Search(Mobifone_serial_number_combo_pattern, t).ok
               THEN /\ call.invoice.serial_no =
                          FirstCapture(Mobifone_serial_number_combo_pattern, t, 1)
                    /\ call.invoice.invoice_no =
                          FirstCapture(Mobifone_serial_number_combo_pattern, t, 2)
               ELSE /\ call.invoice.serial_no = FirstCapture(Mobifone_serial_pattern, t, 1)
                    /\ call.invoice.invoice_no = FirstCapture(Mobifone_number_pattern, t, 1))

\* the combined pattern fails, the number is found and the serial is not
C16_Witness ==
    /\ call.parser = "mobifone"
    /\ pdf_text = MH_number_only
    /\ ~Search(Mobifone_serial_number_combo_pattern, Normalise(pdf_text)).ok
    /\ ~Search(Mobifone_serial_pattern, Normalise(pdf_text)).ok
    /\ call.invoice.invoice_no = <<"7", "7">>
    /\ call.invoice.serial_no = <<>>

\* the combined pattern matches and the separate patterns would say otherwise
C16_WitnessCombined ==
    /\ call.parser = "mobifone"
    /\ pdf_text = MH_combo
    /\ FirstCapture(Mobifone_serial_pattern, Normalise(pdf_text), 1) = <<"2", "0", "2", "4">>
    /\ FirstCapture(Mobifone_number_pattern, Normalise(pdf_text), 1) = <<"2", "0", "2", "4">>
    /\ call.invoice.serial_no = <<"1", "K", "2", "5", "D", "A", "A">>
    /\ call.invoice.invoice_no = <<"0", "0", "1", "2", "3", "4", "5">>

\* the charge-line pattern of the called parser
LinePattern ==
    CASE call.parser = "mobifone" -> Mobifone_line_pattern
      [] call.parser = "viettel" -> Viettel_line_pattern
      [] call.parser = "invoice_parsers.viettel" -> invoice_parsers_Viettel_line_pattern

\* the field each of the four numbers of a charge line stands for
ColumnOrder ==
    IF call.parser = "mobifone"
    THEN <<"total_amount", "vat_amount", "vat_rate", "base_amount">>
    ELSE <<"base_amount", "vat_rate", "vat_amount", "total_amount">>

\* the ChargeLine of match m of t: each field from the capture of its column
ByColumns(t, m) ==
    [f \in LineFields |->
        TokenAmount(Group(t, m, CHOOSE g \in 1..4 : ColumnOrder[g] = f))]

\* the ChargeLines of every match of the line pattern in t, in the order of t
LinesByColumns(t) ==
    With(FindIter(LinePattern, t), LAMBDA matches :
        [i \in 1..Len(matches) |-> ByColumns(t, matches[i])])

\* C17: the four numbers of a captured charge line are, in order,
\* total_amount, vat_amount, vat_rate, base_amount for Mobifone and
\* base_amount, vat_rate, vat_amount, total_amount for Viettel, and the
\* captured lines enter the result in the order in which they appear in the
\* normalised text.
C17_ColumnOrderAndLineOrder ==
    call.parser \in Deduplicating =>
        /\ ~call.raised
        /\ call.invoice.lines = FirstOccurrences(LinesByColumns(Normalise(pdf_text)))

\* two Mobifone rows, the larger first
C17_Witness ==
    /\ call.parser = "mobifone"
    /\ pdf_text = JoinLines(<<ML_b, ML_a>>)
    /\ Len(FindIter(Mobifone_line_pattern, Normalise(pdf_text))) = 2
    /\ call.invoice.lines =
          <<[base_amount |-> 20, vat_rate |-> 10, vat_amount |-> 2, total_amount |-> 22],
            [base_amount |-> 10, vat_rate |-> 10, vat_amount |-> 1, total_amount |-> 11]>>

\* the same two figures in Viettel's column order
C17_WitnessViettel ==
    /\ call.parser = "viettel"
    /\ pdf_text = JoinLines(<<VTL_b, VTL_a>>)
    /\ call.invoice.lines =
          <<[base_amount |-> 20, vat_rate |-> 10, vat_amount |-> 2, total_amount |-> 22],
            [base_amount |-> 10, vat_rate |-> 10, vat_amount |-> 1, total_amount |-> 11]>>

ViettelParsers == {"viettel", "invoice_parsers.viettel"}

\* C18: on Viettel text containing 'Ký hiệu: 1K25DAB', 'Số: 123456' and
\* 'Ngày lập: 05/12/2024' the Viettel parser returns serial_no '1K25DAB',
\* invoice_no '123456' and invoice_date '2024-12-05', the date being read
\* day, month, year.
C18_ViettelExample ==
    (call.parser \in ViettelParsers /\ pdf_text \in ViettelExampleTexts) =>
        /\ ~call.raised
        /\ call.invoice.serial_no = <<"1", "K", "2", "5", "D", "A", "B">>
        /\ call.invoice.invoice_no = <<"1", "2", "3", "4", "5", "6">>
        /\ call.invoice.invoice_date = <<"2", "0", "2", "4", "-", "1", "2", "-", "0", "5">>

C18_Witness ==
    /\ call.parser = "viettel"
    /\ pdf_text = JoinLines(<<VT_serial_line, VT_number_line, VT_date_line>>)
    /\ call.invoice.invoice_no = <<"1", "2", "3", "4", "5", "6">>
    /\ call.invoice.invoice_date = <<"2", "0", "2", "4", "-", "1", "2", "-", "0", "5">>

(***************************************************************************)
(* The text extractor (pdf_utils).                                         *)
(***************************************************************************)
\* a PDF file on disk: whether fitz.open accepts it and, page by page,
\* whether get_text works and the text it gives
Page(text) == [ok |-> TRUE, text |-> text]
BrokenPage == [ok |-> FALSE, text |-> <<>>]
NoException == [type |-> "", path |-> 0]
\* the exception fitz.open raises on the file at path
OpenError(path) == [type |-> "fitz.open", path |-> path]

\* the loop over the pages from page_num on: the text of a page that is
\* read is appended, a page that raises is logged as a warning and skipped
RECURSIVE text_parts(_, _)
text_parts(pdf, page_num) ==
    IF page_num >= Len(pdf.pages) THEN [parts |-> <<>>, logged |-> <<>>]
    ELSE With(text_parts(pdf, page_num + 1), LAMBDA rest :
            IF pdf.pages[page_num + 1].ok
            THEN [parts |-> <<pdf.pages[page_num + 1].text>> \o rest.parts,
                  logged |-> rest.logged]
            ELSE [parts |-> rest.parts,
                  logged |-> <<[level |-> "warning", path |-> pdf.path,
                                page_num |-> page_num]>> \o rest.logged])

\* doc.close(): of the documents that are open, the one under path is closed
doc_close(docs, path) == docs \ {path}

\* an extract_text that closes the document inside the try block of the
\* last page: a failure of that page skips the close
extract_text_close_in_try(pdf) ==
    IF ~pdf.opens
    THEN [raised |-> TRUE, error |-> OpenError(pdf.path), text |-> <<>>,
          logged |-> <<[level |-> "error", path |-> pdf.path, page_num |-> -1]>>,
          open |-> {}]
    ELSE [raised |-> FALSE, error |-> NoException,
          text |-> JoinLines(text_parts(pdf, 0).parts),
          logged |-> text_parts(pdf, 0).logged,
          open |-> IF text_parts(pdf, 0).logged = <<>>
                   THEN doc_close({pdf.path}, pdf.path)
                   ELSE {pdf.path}]

\* extract_text: logs and re-raises what fitz.open raises; else the texts of
\* the pages joined by "\n", the document closed after the last page; open
\* is what the call leaves open
extract_text(pdf) ==
    IF ~pdf.opens
    THEN [raised |-> TRUE, error |-> OpenError(pdf.path), text |-> <<>>,
          logged |-> <<[level |-> "error", path |-> pdf.path, page_num |-> -1]>>,
          open |-> {}]
    ELSE [raised |-> FALSE, error |-> NoException,
          text |-> JoinLines(text_parts(pdf, 0).parts),
          logged |-> text_parts(pdf, 0).logged,
          open |-> doc_close({pdf.path}, pdf.path)]

(***************************************************************************)
(* parse_pdf of a parser module of the package, from the path on.          *)
(***************************************************************************)
\* a parse_pdf that catches what extract_text raises and returns an empty Invoice
parse_pdf_swallowing(module, pdf) ==
    With(extract_text(pdf), LAMBDA extracted :
        [raised |-> FALSE, error |-> NoException, invoice |-> EmptyInvoice,
         logged |-> extracted.logged, open |-> extracted.open])

\* text = extract_text(pdf_path) with no handler around it, then the
\* extraction from the text
parse_pdf(module, pdf) ==
    With(extract_text(pdf), LAMBDA extracted :
        IF extracted.raised
        THEN [raised |-> TRUE, error |-> extracted.error, invoice |-> EmptyInvoice,
              logged |-> extracted.logged, open |-> extracted.open]
        ELSE With(CASE module = get_parser(mobifone).module ->
                            Mobifone_parse_pdf(extracted.text)
                    [] module = get_parser(viettel).module ->
                            Viettel_parse_pdf(extracted.text)
                    [] module = get_parser(vnpt).module ->
                            VNPT_parse_pdf(extracted.text),
                  LAMBDA result :
                      [raised |-> result.raised, error |-> NoException,
                       invoice |-> result.invoice, logged |-> extracted.logged,
                       open |-> extracted.open]))

(***************************************************************************)
(* SpecBatch: the handler of the button of the application, over a batch   *)
(* of uploaded files.                                                      *)
(***************************************************************************)
\* the options of the select box
Providers ==
    {<<"M", "o", "b", "i", "f", "o", "n", "e">>, <<"V", "N", "P", "T">>,
     <<"V", "i", "e", "t", "t", "e", "l">>}

\* Số: 77
BT_number_77 ==
    <<"S", "u1ED1", ":", " ", "7", "7">>
\* Số: 12
BT_number_12 ==
    <<"S", "u1ED1", ":", " ", "1", "2">>

\* 11 1 10% 10 Cước\n10 10% 1 11\nCộng tiền hàng: 100
\* a charge row as Mobifone writes it, one as Viettel does, a VNPT summary line
BT_rows_a ==
    <<"1", "1", " ", "1", " ", "1", "0", "%", " ", "1", "0", " ", "C", "u01B0", "u1EDB", "c", "nl", "1", "0", " ", "1", "0", "%", " ", "1", " ", "1", "1", "nl", "C", "u1ED9", "n", "g", " ", "t", "i", "u1EC1", "n", " ", "h", "u00E0", "n", "g", ":", " ", "1", "0", "0">>
\* 22 2 10% 20 Cước\n20 10% 2 22\nCộng tiền hàng: 200
BT_rows_b ==
    <<"2", "2", " ", "2", " ", "1", "0", "%", " ", "2", "0", " ", "C", "u01B0", "u1EDB", "c", "nl", "2", "0", " ", "1", "0", "%", " ", "2", " ", "2", "2", "nl", "C", "u1ED9", "n", "g", " ", "t", "i", "u1EC1", "n", " ", "h", "u00E0", "n", "g", ":", " ", "2", "0", "0">>

\* the files a user may upload: an invoice of two pages, an invoice behind a
\* page that cannot be read, a file that is no PDF, a scan of one page and a
\* scan of two pages without text
UploadedFiles ==
    {[name |-> "a.pdf", opens |-> TRUE, pages |-> <<Page(BT_number_77), Page(BT_rows_a)>>],
     [name |-> "b.pdf", opens |-> TRUE,
      pages |-> <<BrokenPage, Page(BT_number_12), Page(BT_rows_b)>>],
     [name |-> "c.pdf", opens |-> FALSE, pages |-> <<>>],
     [name |-> "d.pdf", opens |-> TRUE, pages |-> <<Page(<<>>)>>],
     [name |-> "e.pdf", opens |-> TRUE, pages |-> <<Page(<<>>), Page(<<>>)>>]}

\* the temporary file that holds the bytes of the uploaded file
TemporaryFile(file, path) == [path |-> path, opens |-> file.opens, pages |-> file.pages]

Warning == [kind |-> "warning", file |-> "", error |-> NoException]
Error(file, e) == [kind |-> "error", file |-> file, error |-> e]

InitBatch ==
    /\ selected \in Providers
    /\ uploaded_files \in SeqsUpTo(UploadedFiles, MaxFiles)
    /\ parser_module = <<>>
    /\ pc = "button"
    /\ file_index = 0
    /\ invoices = <<>>
    /\ st = <<>>
    /\ tmp_files = {}
    /\ log = <<>>
    /\ open_docs = {}
    /\ NumberIdle
    /\ RegistryIdle
    /\ ParseIdle
    /\ TransformIdle

\* the button is pressed: no file, a warning and return; else the parser
\* module of the provider, an ImportError shown and return
ClickExtract ==
    /\ pc = "button"
    /\ IF uploaded_files = <<>>
       THEN /\ st' = Append(st, Warning)
            /\ pc' = "returned"
            /\ UNCHANGED <<parser_module, file_index>>
       ELSE \E resolved \in {get_parser(Lower(selected))} :
               IF resolved.raised
               THEN /\ st' = Append(st, Error("", [type |-> resolved.error, path |-> 0]))
                    /\ pc' = "returned"
                    /\ UNCHANGED <<parser_module, file_index>>
               ELSE /\ parser_module' = resolved.module
                    /\ file_index' = 1
                    /\ pc' = "for"
                    /\ UNCHANGED st
    /\ invoices' = <<>>
    /\ UNCHANGED <<selected, uploaded_files, tmp_files, log, open_docs>>
    /\ UNCHANGED <<numVars, regVars, parseVars, transformVars>>

\* the uploaded bytes are written to a temporary file
WriteTemporaryFile ==
    /\ pc = "for"
    /\ file_index <= Len(uploaded_files)
    /\ tmp_files' = tmp_files \cup {file_index}
    /\ pc' = "try"
    /\ UNCHANGED <<selected, uploaded_files, parser_module, file_index, invoices, st, log,
                   open_docs>>
    /\ UNCHANGED <<numVars, regVars, parseVars, transformVars>>

\* a loop that gives up on the first file whose parsing raises
ParseUploadedFile_aborting ==
    /\ pc = "try"
    /\ \E parsed \in {parse_pdf(parser_module,
                                TemporaryFile(uploaded_files[file_index], file_index))} :
          /\ log' = log \o parsed.logged
          /\ open_docs' = open_docs \cup parsed.open
          /\ IF parsed.raised
             THEN /\ st' = Append(st, Error(uploaded_files[file_index].name, parsed.error))
                  /\ pc' = "returned"
                  /\ UNCHANGED invoices
             ELSE /\ invoices' = Append(invoices, parsed.invoice)
                  /\ pc' = "finally"
                  /\ UNCHANGED st
    /\ UNCHANGED <<selected, uploaded_files, parser_module, file_index, tmp_files>>
    /\ UNCHANGED <<numVars, regVars, parseVars, transformVars>>

\* a try block whose parser keeps one lines list for all its invoices: the
\* lines of a document are appended to it, and every Invoice holds that list
ParseUploadedFile_shared_lines ==
    /\ pc = "try"
    /\ \E parsed \in {parse_pdf(parser_module,
                                TemporaryFile(uploaded_files[file_index], file_index))} :
          /\ log' = log \o parsed.logged
          /\ open_docs' = open_docs \cup parsed.open
          /\ IF parsed.raised
             THEN /\ st' = Append(st, Error(uploaded_files[file_index].name, parsed.error))
                  /\ UNCHANGED invoices
             ELSE /\ invoices' =
                        [i \in 1..(Len(invoices) + 1) |->
                            [Append(invoices, parsed.invoice)[i] EXCEPT !.lines =
                                (IF invoices = <<>> THEN <<>> ELSE invoices[1].lines)
                                    \o parsed.invoice.lines]]
                  /\ UNCHANGED st
    /\ pc' = "finally"
    /\ UNCHANGED <<selected, uploaded_files, parser_module, file_index, tmp_files>>
    /\ UNCHANGED <<numVars, regVars, parseVars, transformVars>>

\* the try block: the invoice parse_pdf returns is collected; what it
\* raises is shown as an error with the name of the file
ParseUploadedFile ==
    /\ pc = "try"
    /\ \E parsed \in {parse_pdf(parser_module,
                                TemporaryFile(uploaded_files[file_index], file_index))} :
          /\ log' = log \o parsed.logged
          /\ open_docs' = open_docs \cup parsed.open
          /\ IF parsed.raised
             THEN /\ st' = Append(st, Error(uploaded_files[file_index].name, parsed.error))
                  /\ UNCHANGED invoices
             ELSE /\ invoices' = Append(invoices, parsed.invoice)
                  /\ UNCHANGED st
    /\ pc' = "finally"
    /\ UNCHANGED <<selected, uploaded_files, parser_module, file_index, tmp_files>>
    /\ UNCHANGED <<numVars, regVars, parseVars, transformVars>>

\* an unlink at the end of the try block instead of a finally block: the
\* temporary file of a document whose parsing raises stays
UnlinkTemporaryFile_after_success_only ==
    /\ pc = "finally"
    /\ tmp_files' = IF uploaded_files[file_index].opens
                    THEN tmp_files \ {file_index}
                    ELSE tmp_files
    /\ file_index' = file_index + 1
    /\ pc' = "for"
    /\ UNCHANGED <<selected, uploaded_files, parser_module, invoices, st, log, open_docs>>
    /\ UNCHANGED <<numVars, regVars, parseVars, transformVars>>

\* the finally block: the temporary file is removed, the loop goes on
UnlinkTemporaryFile ==
    /\ pc = "finally"
    /\ tmp_files' = tmp_files \ {file_index}
    /\ file_index' = file_index + 1
    /\ pc' = "for"
    /\ UNCHANGED <<selected, uploaded_files, parser_module, invoices, st, log, open_docs>>
    /\ UNCHANGED <<numVars, regVars, parseVars, transformVars>>

\* after the loop: no invoice, a warning and return; else on to the ledger rows
EndOfLoop ==
    /\ pc = "for"
    /\ file_index > Len(uploaded_files)
    /\ IF invoices = <<>>
       THEN st' = Append(st, Warning) /\ pc' = "returned"
       ELSE pc' = "transform" /\ UNCHANGED st
    /\ UNCHANGED <<selected, uploaded_files, parser_module, file_index, invoices,
                   tmp_files, log, open_docs>>
    /\ UNCHANGED <<numVars, regVars, parseVars, transformVars>>

NextBatch ==
    \/ ClickExtract
    \/ WriteTemporaryFile
    \/ ParseUploadedFile
    \/ UnlinkTemporaryFile
    \/ EndOfLoop

SpecBatch == InitBatch /\ [][NextBatch]_vars

(***************************************************************************)
(* Claims about the batch loop.                                            *)
(***************************************************************************)
\* the handler has ended, by a return or by going on to the ledger rows
HandlerEnded == pc \in {"returned", "transform"}

\* how many uploaded files the try block has been through
FilesTried ==
    CASE pc = "button" -> 0
      [] pc \in {"for", "try"} -> file_index - 1
      [] pc = "finally" -> file_index
      [] HandlerEnded -> Len(uploaded_files)

\* the text of a file that opens: its readable pages, one per line
TextOfFile(file) ==
    JoinLines([i \in 1..Len(SelectSeq(file.pages, LAMBDA p : p.ok)) |->
                  SelectSeq(file.pages, LAMBDA p : p.ok)[i].text])

\* the Invoice the parser of the selected provider reads in a text
InvoiceOfSelected(text) ==
    CASE Lower(selected) = mobifone -> Mobifone_parse_pdf(text).invoice
      [] Lower(selected) = viettel -> Viettel_parse_pdf(text).invoice
      [] Lower(selected) = vnpt -> VNPT_parse_pdf(text).invoice

\* the files among the first n uploaded that open (or that do not), in upload order
FirstFiles(n, opens) ==
    SelectSeq(SubSeq(uploaded_files, 1, n), LAMBDA file : file.opens = opens)

\* the error reports shown on the page, in order
ErrorReports == SelectSeq(st, LAMBDA message : message.kind = "error")

\* C19: in the batch loop, each uploaded file whose parsing raises gets one
\* error report of its own, every other file is still parsed, and the
\* collected invoices are those of the files that did not fail, in upload
\* order; a failure never stops the loop before the last file.
C19_FailuresAreIsolated ==
    pc # "idle" =>
        /\ invoices = [i \in 1..Len(FirstFiles(FilesTried, TRUE)) |->
                          InvoiceOfSelected(TextOfFile(FirstFiles(FilesTried, TRUE)[i]))]
        /\ [i \in 1..Len(ErrorReports) |-> ErrorReports[i].file]
              = [i \in 1..Len(FirstFiles(FilesTried, FALSE)) |->
                    FirstFiles(FilesTried, FALSE)[i].name]
        /\ pc = "transform" => invoices # <<>>

\* a batch of three with the unreadable file in the middle, at its end
C19_Witness ==
    /\ pc = "transform"
    /\ Len(uploaded_files) = 3
    /\ uploaded_files[1].name = "a.pdf"
    /\ uploaded_files[2].name = "c.pdf"
    /\ uploaded_files[3].name = "b.pdf"
    /\ Len(invoices) = 2
    /\ invoices[1].invoice_no = <<"7", "7">>
    /\ invoices[2].invoice_no = <<"1", "2">>
    /\ Len(ErrorReports) = 1
    /\ ErrorReports[1].file = "c.pdf"

\* the file the try block has just been through
TriedFile == uploaded_files[file_index]

\* C20: when the document cannot be opened, extract_text logs an error,
\* raises and returns no text, and parse_pdf of the provider's parser lets
\* that very error reach its caller and returns no Invoice; no other error
\* of a parser reaches the caller.
C20_OpenFailurePropagates ==
    /\ \A file \in UploadedFiles :
          ~file.opens =>
              /\ extract_text(TemporaryFile(file, 1)).raised
              /\ extract_text(TemporaryFile(file, 1)).text = <<>>
              /\ \E record \in {extract_text(TemporaryFile(file, 1)).logged[1]} :
                    record.level = "error"
    /\ (pc = "finally" /\ ~TriedFile.opens) =>
          /\ st # <<>>
          /\ st[Len(st)] = Error(TriedFile.name, OpenError(file_index))
          /\ log # <<>>
          /\ log[Len(log)].level = "error" /\ log[Len(log)].path = file_index
          /\ Len(invoices) = Len(FirstFiles(file_index - 1, TRUE))
    /\ pc # "idle" =>
          /\ \A i \in 1..Len(ErrorReports) : ErrorReports[i].error.type = "fitz.open"
          /\ Len(ErrorReports) = Len(FirstFiles(FilesTried, FALSE))

\* the second file of a batch is unreadable and has just been tried
C20_Witness ==
    /\ pc = "finally"
    /\ file_index = 2
    /\ ~TriedFile.opens
    /\ Len(invoices) = 1
    /\ st = <<Error("c.pdf", OpenError(2))>>
    /\ log[Len(log)] = [level |-> "error", path |-> 2, page_num |-> -1]

(***************************************************************************)
(* Claims about the text extractor.                                        *)
(***************************************************************************)
\* the file opens and none of its pages has embedded text
IsScan(file) ==
    /\ file.opens
    /\ \A i \in 1..Len(file.pages) : file.pages[i].ok /\ file.pages[i].text = <<>>

\* what extract_text gave for the file the try block has just been through
TriedExtraction == extract_text(TemporaryFile(TriedFile, file_index))

\* C21: for a document that opens and whose pages all have no embedded
\* text, whatever their number, extract_text does not fail and returns the
\* empty string.
C21_ScanGivesEmptyString ==
    (pc = "finally" /\ IsScan(TriedFile)) =>
        /\ ~TriedExtraction.raised
        /\ TriedExtraction.text = <<>>

\* a scan of two pages has been read: the text is the newline between them
C21_Witness ==
    /\ pc = "finally"
    /\ IsScan(TriedFile)
    /\ Len(TriedFile.pages) = 2
    /\ ~TriedExtraction.raised
    /\ TriedExtraction.text = <<"nl">>

\* a scan of one page has been read: the text is empty
C21_WitnessOnePage ==
    /\ pc = "finally"
    /\ IsScan(TriedFile)
    /\ Len(TriedFile.pages) = 1
    /\ TriedExtraction.text = <<>>

\* C22: every call of extract_text has released the document it opened when
\* it ends, by return after any page failures or by raising: once the try
\* block is through no document is open, so none is when the next call
\* starts.
C22_HandleReleased ==
    /\ open_docs = {}
    /\ pc = "finally" => TriedExtraction.open = {}

\* extract_text has returned from a document it opened and one of whose
\* pages failed, and has raised on another; no document is open
C22_Witness ==
    /\ pc = "finally"
    /\ file_index > 1
    /\ TriedFile.opens
    /\ \E i \in 1..Len(TriedFile.pages) : ~TriedFile.pages[i].ok
    /\ \E i \in 1..(file_index - 1) : ~uploaded_files[i].opens
    /\ open_docs = {}

C23_WitnessSameDocument ==
    /\ pc = "finally"
    /\ file_index = 2
    /\ uploaded_files[1] = uploaded_files[2]
    /\ Len(invoices) = 2
    /\ invoices[1].lines # <<>>
    /\ invoices[1] = invoices[2]

(***************************************************************************)
(* invoices_to_ledger_rows of transform.py.  A row is a dict: here the     *)
(* sequence of its <<key, value>> items in insertion order.  A column name *)
(* is written as Python's ascii() writes it.                               *)
(***************************************************************************)
\* bool(value)
Truthy(value) ==
    CASE value.type = "str" -> value.str # <<>>
      [] value.type = "float" -> value.num # 0
      [] OTHER -> FALSE

\* d.get(key, default) of a dict given as a function
dict_get(d, key, default) == IF key \in DOMAIN d THEN d[key] ELSE default

\* {key: "" for key in keys}
dict_of_empty(keys) == [i \in 1..Len(keys) |-> <<keys[i], Str(<<>>)>>]

\* the value the last of the assignments to key gives it
last_assigned(assignments, key) ==
    assignments[CHOOSE j \in 1..Len(assignments) :
                   /\ assignments[j][1] = key
                   /\ \A k \in (j + 1)..Len(assignments) : assignments[k][1] # key][2]

\* d[key] = value for each <<key, value>> of assignments, one after the
\* other: the value of a key the dict has is replaced where it stands, a new
\* key goes to the end when it is first assigned
setitems(d, assignments) ==
    [i \in 1..Len(d) |->
        IF \E j \in 1..Len(assignments) : assignments[j][1] = d[i][1]
        THEN <<d[i][1], last_assigned(assignments, d[i][1])>>
        ELSE d[i]]
    \o SelectSeq([j \in 1..Len(assignments) |->
                     IF /\ \A i \in 1..Len(d) : d[i][1] # assignments[j][1]
                        /\ \A k \in 1..(j - 1) : assignments[k][1] # assignments[j][1]
                     THEN <<assignments[j][1],
                            last_assigned(assignments, assignments[j][1])>>
                     ELSE <<>>],
                 LAMBDA item : item # <<>>)

\* list(d): the keys in insertion order
Keys(d) == [i \in 1..Len(d) |-> d[i][1]]

\* d[key], for a key the dict has
Item(d, key) == d[CHOOSE i \in 1..Len(d) : d[i][1] = key][2]

\* the sequences of a sequence, one after the other
RECURSIVE Concat(_)
Concat(seqs) == IF seqs = <<>> THEN <<>> ELSE Head(seqs) \o Concat(Tail(seqs))

\* sum(numbers)
RECURSIVE sum(_)
sum(numbers) == IF numbers = <<>> THEN 0 ELSE Head(numbers) + sum(Tail(numbers))

\* template.format(period=period, invoice_no=invoice_no), the template given
\* as its literal parts and its replacement fields
str_format(template, period, invoice_no) ==
    Concat([i \in 1..Len(template) |->
               CASE template[i].field = "" -> template[i].literal
                 [] template[i].field = "period" -> period
                 [] template[i].field = "invoice_no" -> invoice_no])

\* the columns of the SAP template, in order
columns ==
    <<"G/L Acct/BP Code",
      "G/L Acct/BP Name",
      "Control Acct",
      "Credit",
      "Debit (SC)",
      "Credit (SC)",
      "Remarks Template",
      "Document Date",
      "Project/Kh\\u1ebf \\u01b0\\u1edbc",
      "Tax Group",
      "Federal Tax ID",
      "Receipt Number",
      "Tax Amount",
      "Gross Value",
      "Base Amount",
      "Primary Form Item",
      "Distr. Rule",
      "Branch",
      "Seri H\\u0110",
      "Debit USD S1",
      "Credit USD S1",
      "InvType",
      "T\\xecnh tr\\u1ea1ng k\\xea khai",
      "K\\u1ef3 k\\xea khai",
      "CFWId",
      "S\\u1ed1 H\\u0110KM",
      "Seri H\\u0110KM",
      "Di\\u1ec5n gi\\u1ea3i H\\u0110KM",
      "Nh\\xe3n t\\xednh C.N\\u1ee3",
      "Invoice?",
      "\\u0110\\u1ea3o?",
      "BD: Exp",
      "M\\u1eabu s\\u1ed1 H\\u0110",
      "AdjTran",
      "M\\xe3 \\u0111\\u1ed1i t\\xe1c",
      "T\\xean \\u0111\\u1ed1i t\\xe1c",
      "\\u0110\\u1ecba ch\\u1ec9",
      "MST",
      "Di\\u1ec5n gi\\u1ea3i",
      "RemarksJE",
      "Bank Account",
      "BP Bank Account",
      "Share Holder No">>

\* TransformConfig with its defaults, the vendor and the period as the
\* application fills them in for a provider
config ==
    [vendor_code |-> <<"N", "C", "C", "0", "1">>,
     vendor_name |-> <<"M", "O", "B", "I", "F", "O", "N", "E">>,
     vendor_tax_code |-> <<"0", "1", "0", "0", "6", "8", "6", "2", "0", "9">>,
     vendor_address |-> <<"H", "N">>,
     expense_account |-> <<"6", "4", "2", "7", "1", "0", "0", "1">>,
     vat_account |-> <<"1", "3", "3", "1", "1", "0", "0", "1">>,
     payable_account |-> <<"3", "3", "1", "1", "1", "0", "0", "1">>,
     project_code |-> <<"T", "T", "G">>,
     default_branch |-> <<>>,
     tax_group_map |-> (10 :> <<"P", "V", "N", "1">> @@ 0 :> <<"P", "V", "N", "3">>),
     remarks_template |-> <<>>,
     description_template |->
         <<[literal |-> <<"C", "P", " ", "D", "I", "E", "N", " ", "T", "H", "O", "A", "I", " ", "M", "O", "B", "I", "F", "O", "N", "E", " ">>, field |-> ""],
           [literal |-> <<>>, field |-> "period"],
           [literal |-> <<" ", "-", " ", "H", "D">>, field |-> ""],
           [literal |-> <<>>, field |-> "invoice_no"]>>,
     period |-> <<"T", "1", "2", ".", "2", "4">>,
     cfw_id |-> <<>>]

\* the expense row of a line
expense_row(inv_no, serial, inv_date, description, base, vat_rate) ==
    setitems(dict_of_empty(columns),
             <<<<"G/L Acct/BP Code", Str(config.expense_account)>>,
               <<"G/L Acct/BP Name", Str(<<"C", "h", "i", " ", "p", "h", "u00ED", " ", "d", "u1ECB", "c", "h", " ", "v", "u1EE5", " ", "m", "u", "a", " ", "n", "g", "o", "u00E0", "i">>)>>,
               <<"Control Acct", Str(config.expense_account)>>,
               <<"Credit", Str(<<>>)>>,
               <<"Debit (SC)", Num(base)>>,
               <<"Credit (SC)", Str(<<>>)>>,
               <<"Remarks Template", Str(config.remarks_template)>>,
               <<"Document Date", inv_date>>,
               <<"Project/Kh\\u1ebf \\u01b0\\u1edbc", Str(config.project_code)>>,
               <<"Tax Group", Str(dict_get(config.tax_group_map, vat_rate, <<>>))>>,
               <<"Federal Tax ID", Str(config.vendor_tax_code)>>,
               <<"Receipt Number", Str(inv_no)>>,
               <<"Tax Amount", Str(<<>>)>>,
               <<"Gross Value", Str(<<>>)>>,
               <<"Base Amount", Str(<<>>)>>,
               <<"Primary Form Item", Str(<<>>)>>,
               <<"Distr. Rule", Str(<<>>)>>,
               <<"Branch", Str(config.default_branch)>>,
               <<"Seri H\\u0110", Str(serial)>>,
               <<"Debit USD S1", Str(<<>>)>>,
               <<"Credit USD S1", Str(<<>>)>>,
               <<"InvType", Str(<<>>)>>,
               <<"T\\xecnh tr\\u1ea1ng k\\xea khai", Str(<<"K", "u00EA", " ", "k", "h", "a", "i">>)>>,
               <<"K\\u1ef3 k\\xea khai", Str(config.period)>>,
               <<"CFWId", Str(config.cfw_id)>>,
               <<"S\\u1ed1 H\\u0110KM", Str(<<>>)>>,
               <<"Seri H\\u0110KM", Str(<<>>)>>,
               <<"Di\\u1ec5n gi\\u1ea3i H\\u0110KM", Str(<<>>)>>,
               <<"Nh\\xe3n t\\xednh C.N\\u1ee3", Str(<<>>)>>,
               <<"Invoice?", Str(<<"N", "o">>)>>,
               <<"\\u0110\\u1ea3o?", Str(<<"N", "o">>)>>,
               <<"BD: Exp", Str(<<>>)>>,
               <<"M\\u1eabu s\\u1ed1 H\\u0110", Str(<<>>)>>,
               <<"AdjTran", Str(<<>>)>>,
               <<"M\\xe3 \\u0111\\u1ed1i t\\xe1c", Str(config.vendor_code)>>,
               <<"T\\xean \\u0111\\u1ed1i t\\xe1c", Str(config.vendor_name)>>,
               <<"\\u0110\\u1ecba ch\\u1ec9", Str(config.vendor_address)>>,
               <<"MST", Str(config.vendor_tax_code)>>,
               <<"Di\\u1ec5n gi\\u1ea3i", Str(description)>>,
               <<"RemarksJE", Str(description)>>,
               <<"Bank Account", Str(<<>>)>>,
               <<"BP Bank Account", Str(<<>>)>>,
               <<"Share Holder No", Str(<<>>)>>>>)

\* the VAT row of a line
vat_row(inv_no, serial, inv_date, description, vat_amount, vat_rate) ==
    setitems(dict_of_empty(columns),
             <<<<"G/L Acct/BP Code", Str(config.vat_account)>>,
               <<"G/L Acct/BP Name", Str(<<"T", "h", "u", "u1EBF", " ", "G", "T", "G", "T", " ", "u0111", "u01B0", "u1EE3", "c", " ", "k", "h", "u1EA5", "u", " ", "t", "r", "u1EEB", " ", "c", "u1EE7", "a", " ", "h", "u00E0", "n", "g", " ", "h", "u00F3", "a", ",", " ", "d", "u1ECB", "c", "h", " ", "v", "u1EE5">>)>>,
               <<"Control Acct", Str(config.vat_account)>>,
               <<"Credit", Str(<<>>)>>,
               <<"Debit (SC)", Num(vat_amount)>>,
               <<"Credit (SC)", Str(<<>>)>>,
               <<"Remarks Template", Str(config.remarks_template)>>,
               <<"Document Date", inv_date>>,
               <<"Project/Kh\\u1ebf \\u01b0\\u1edbc", Str(config.project_code)>>,
               <<"Tax Group", Str(dict_get(config.tax_group_map, vat_rate, <<>>))>>,
               <<"Federal Tax ID", Str(config.vendor_tax_code)>>,
               <<"Receipt Number", Str(inv_no)>>,
               <<"Tax Amount", Str(<<>>)>>,
               <<"Gross Value", Str(<<>>)>>,
               <<"Base Amount", Str(<<>>)>>,
               <<"Primary Form Item", Str(<<>>)>>,
               <<"Distr. Rule", Str(<<>>)>>,
               <<"Branch", Str(config.default_branch)>>,
               <<"Seri H\\u0110", Str(serial)>>,
               <<"InvType", Str(<<>>)>>,
               <<"T\\xecnh tr\\u1ea1ng k\\xea khai", Str(<<"K", "u00EA", " ", "k", "h", "a", "i">>)>>,
               <<"K\\u1ef3 k\\xea khai", Str(config.period)>>,
               <<"CFWId", Str(config.cfw_id)>>,
               <<"Invoice?", Str(<<"N", "o">>)>>,
               <<"\\u0110\\u1ea3o?", Str(<<"N", "o">>)>>,
               <<"M\\xe3 \\u0111\\u1ed1i t\\xe1c", Str(config.vendor_code)>>,
               <<"T\\xean \\u0111\\u1ed1i t\\xe1c", Str(config.vendor_name)>>,
               <<"\\u0110\\u1ecba ch\\u1ec9", Str(config.vendor_address)>>,
               <<"MST", Str(config.vendor_tax_code)>>,
               <<"Di\\u1ec5n gi\\u1ea3i", Str(description)>>,
               <<"RemarksJE", Str(description)>>>>)

\* a credit row built on an empty dict
credit_row_on_empty_dict(inv_no, serial, inv_date, description, total_invoice_amount) ==
    setitems(<<>>,
             <<<<"G/L Acct/BP Code", Str(config.vendor_code)>>,
               <<"G/L Acct/BP Name", Str(config.vendor_name)>>,
               <<"Control Acct", Str(config.payable_account)>>,
               <<"Credit", Num(total_invoice_amount)>>,
               <<"Debit (SC)", Str(<<>>)>>,
               <<"Credit (SC)", Str(<<>>)>>,
               <<"Remarks Template", Str(config.remarks_template)>>,
               <<"Document Date", inv_date>>,
               <<"Project/Kh\\u1ebf \\u01b0\\u1edbc", Str(config.project_code)>>,
               <<"Federal Tax ID", Str(config.vendor_tax_code)>>,
               <<"Receipt Number", Str(inv_no)>>,
               <<"Seri H\\u0110", Str(serial)>>,
               <<"InvType", Str(<<>>)>>,
               <<"T\\xecnh tr\\u1ea1ng k\\xea khai", Str(<<"K", "u00EA", " ", "k", "h", "a", "i">>)>>,
               <<"K\\u1ef3 k\\xea khai", Str(config.period)>>,
               <<"CFWId", Str(config.cfw_id)>>,
               <<"Invoice?", Str(<<"N", "o">>)>>,
               <<"\\u0110\\u1ea3o?", Str(<<"N", "o">>)>>,
               <<"M\\xe3 \\u0111\\u1ed1i t\\xe1c", Str(config.vendor_code)>>,
               <<"T\\xean \\u0111\\u1ed1i t\\xe1c", Str(config.vendor_name)>>,
               <<"\\u0110\\u1ecba ch\\u1ec9", Str(config.vendor_address)>>,
               <<"MST", Str(config.vendor_tax_code)>>,
               <<"Di\\u1ec5n gi\\u1ea3i", Str(description)>>,
               <<"RemarksJE", Str(description)>>>>)

\* the credit row of an invoice
credit_row(inv_no, serial, inv_date, description, total_invoice_amount) ==
    setitems(dict_of_empty(columns),
             <<<<"G/L Acct/BP Code", Str(config.vendor_code)>>,
               <<"G/L Acct/BP Name", Str(config.vendor_name)>>,
               <<"Control Acct", Str(config.payable_account)>>,
               <<"Credit", Num(total_invoice_amount)>>,
               <<"Debit (SC)", Str(<<>>)>>,
               <<"Credit (SC)", Str(<<>>)>>,
               <<"Remarks Template", Str(config.remarks_template)>>,
               <<"Document Date", inv_date>>,
               <<"Project/Kh\\u1ebf \\u01b0\\u1edbc", Str(config.project_code)>>,
               <<"Federal Tax ID", Str(config.vendor_tax_code)>>,
               <<"Receipt Number", Str(inv_no)>>,
               <<"Seri H\\u0110", Str(serial)>>,
               <<"InvType", Str(<<>>)>>,
               <<"T\\xecnh tr\\u1ea1ng k\\xea khai", Str(<<"K", "u00EA", " ", "k", "h", "a", "i">>)>>,
               <<"K\\u1ef3 k\\xea khai", Str(config.period)>>,
               <<"CFWId", Str(config.cfw_id)>>,
               <<"Invoice?", Str(<<"N", "o">>)>>,
               <<"\\u0110\\u1ea3o?", Str(<<"N", "o">>)>>,
               <<"M\\xe3 \\u0111\\u1ed1i t\\xe1c", Str(config.vendor_code)>>,
               <<"T\\xean \\u0111\\u1ed1i t\\xe1c", Str(config.vendor_name)>>,
               <<"\\u0110\\u1ecba ch\\u1ec9", Str(config.vendor_address)>>,
               <<"MST", Str(config.vendor_tax_code)>>,
               <<"Di\\u1ec5n gi\\u1ea3i", Str(description)>>,
               <<"RemarksJE", Str(description)>>>>)

\* `invoice.get("invoice_date") or document_date`, and today's date when
\* that is None or empty
posting_date(invoice) ==
    With(IF invoice.invoice_date # <<>> THEN Str(invoice.invoice_date) ELSE document_date,
         LAMBDA inv_date :
             IF inv_date = None \/ ~Truthy(inv_date) THEN Str(today) ELSE inv_date)

\* the rows of the lines of an invoice: of each line its expense row and,
\* when its vat_amount is not zero, its VAT row
line_rows(invoice, inv_no, inv_date, description) ==
    Concat([j \in 1..Len(invoice.lines) |->
               <<expense_row(inv_no, Strip(invoice.serial_no), inv_date, description,
                             invoice.lines[j].base_amount, invoice.lines[j].vat_rate)>>
               \o (IF invoice.lines[j].vat_amount # 0
                   THEN <<vat_row(inv_no, Strip(invoice.serial_no), inv_date, description,
                                  invoice.lines[j].vat_amount, invoice.lines[j].vat_rate)>>
                   ELSE <<>>)])

\* the body of the loop over the invoices with the credit row put before
\* the rows of the lines
invoice_rows_credit_first(invoice) ==
    With(str_format(config.description_template, config.period, Strip(invoice.invoice_no)),
         LAMBDA description :
             (IF sum([j \in 1..Len(invoice.lines) |-> invoice.lines[j].total_amount]) # 0
              THEN <<credit_row(Strip(invoice.invoice_no), Strip(invoice.serial_no),
                                posting_date(invoice), description,
                                sum([j \in 1..Len(invoice.lines) |->
                                        invoice.lines[j].total_amount]))>>
              ELSE <<>>)
             \o line_rows(invoice, Strip(invoice.invoice_no), posting_date(invoice),
                          description))

\* the body of the loop over the invoices: the rows of the lines, then the
\* credit row when the total_amount of the lines do not add up to zero
invoice_rows(invoice) ==
    With(str_format(config.description_template, config.period, Strip(invoice.invoice_no)),
         LAMBDA description :
             line_rows(invoice, Strip(invoice.invoice_no), posting_date(invoice),
                       description)
             \o (IF sum([j \in 1..Len(invoice.lines) |-> invoice.lines[j].total_amount]) # 0
                 THEN <<credit_row(Strip(invoice.invoice_no), Strip(invoice.serial_no),
                                   posting_date(invoice), description,
                                   sum([j \in 1..Len(invoice.lines) |->
                                           invoice.lines[j].total_amount]))>>
                 ELSE <<>>))

(***************************************************************************)
(* SpecTransform: one call of invoices_to_ledger_rows, invoice by invoice. *)
(***************************************************************************)
Line(base, rate, vat, total) ==
    [base_amount |-> base, vat_rate |-> rate, vat_amount |-> vat, total_amount |-> total]

\* invoices as the parsers return them: one line at 10%; a line at 10% and a
\* line at 0%; no line; a line of which only the base amount was read; a line
\* at a rate tax_group_map does not have, under a number with blanks around
\* it; a line with its VAT but no total, on an invoice without date
ParsedInvoices ==
    {[invoice_no |-> <<"7", "7">>, serial_no |-> <<"1", "C", "2", "4", "T", "A", "A">>,
      invoice_date |-> <<"2", "0", "2", "4", "-", "1", "2", "-", "0", "5">>,
      lines |-> <<Line(100, 10, 10, 110)>>],
     [invoice_no |-> <<"7", "8">>, serial_no |-> <<"1", "C", "2", "4", "T", "A", "A">>,
      invoice_date |-> <<"2", "0", "2", "4", "-", "1", "2", "-", "0", "6">>,
      lines |-> <<Line(100, 10, 10, 110), Line(50, 0, 0, 50)>>],
     [invoice_no |-> <<"7", "9">>, serial_no |-> <<>>,
      invoice_date |-> <<"2", "0", "2", "4", "-", "1", "2", "-", "0", "7">>, lines |-> <<>>],
     [invoice_no |-> <<"8", "0">>, serial_no |-> <<>>,
      invoice_date |-> <<"2", "0", "2", "4", "-", "1", "2", "-", "0", "8">>,
      lines |-> <<Line(100, 0, 0, 0)>>],
     [invoice_no |-> <<" ", "1", "2", " ">>, serial_no |-> <<"K", "2", "4", "T", "A", "B">>,
      invoice_date |-> <<"2", "0", "2", "4", "-", "1", "2", "-", "0", "9">>,
      lines |-> <<Line(100, 8, 8, 108)>>],
     [invoice_no |-> <<>>, serial_no |-> <<>>, invoice_date |-> <<>>,
      lines |-> <<Line(100, 10, 10, 0)>>]}

\* the document_date of the call: left out, empty, a date
DocumentDates == {None, Str(<<>>), Str(<<"2", "0", "2", "5", "-", "0", "1", "-", "0", "1">>)}

\* the dates the call may fall on
Todays == {<<"2", "0", "2", "5", "-", "0", "1", "-", "1", "5">>}

InitTransform ==
    /\ ledger_invoices \in SeqsUpTo(ParsedInvoices, MaxInvoices)
    /\ document_date \in DocumentDates
    /\ today \in Todays
    /\ invoice_pos = 1
    /\ ledger_rows = <<>>
    /\ NumberIdle
    /\ RegistryIdle
    /\ ParseIdle
    /\ BatchIdle

\* one turn of the loop over the invoices: the rows of the invoice are
\* appended to rows
ForInvoice ==
    /\ invoice_pos >= 1
    /\ invoice_pos <= Len(ledger_invoices)
    /\ ledger_rows' = ledger_rows \o invoice_rows(ledger_invoices[invoice_pos])
    /\ invoice_pos' = invoice_pos + 1
    /\ UNCHANGED <<ledger_invoices, document_date, today>>
    /\ UNCHANGED <<numVars, regVars, parseVars, batchVars>>

NextTransform == ForInvoice

SpecTransform == InitTransform /\ [][NextTransform]_vars

\* the loop is over: rows is what invoices_to_ledger_rows returns
RowsReturned == invoice_pos > Len(ledger_invoices)

(***************************************************************************)
(* Claims about the ledger rows.                                           *)
(***************************************************************************)
\* a turn of the loop over the invoices, the invoice it is about and the
\* rows it has added
InvoiceDone == invoice_pos' = invoice_pos + 1
DoneInvoice == ledger_invoices[invoice_pos]
NewRows == SubSeq(ledger_rows', Len(ledger_rows) + 1, Len(ledger_rows'))

\* what a row is, by its control account
Kind(row) ==
    CASE Item(row, "Control Acct") = Str(config.expense_account) -> "expense"
      [] Item(row, "Control Acct") = Str(config.vat_account) -> "vat"
      [] Item(row, "Control Acct") = Str(config.payable_account) -> "credit"
      [] OTHER -> "other"
RowsOfKind(rs, kind) == SelectSeq(rs, LAMBDA row : Kind(row) = kind)
ItemsOf(rs, key) == [i \in 1..Len(rs) |-> Item(rs[i], key)]

\* the lines of an invoice that bear VAT
TaxedLines(invoice) == SelectSeq(invoice.lines, LAMBDA line : line.vat_amount # 0)

\* the total_amount of the lines of an invoice, added up
TotalOf(invoice) ==
    sum([j \in 1..Len(invoice.lines) |-> invoice.lines[j].total_amount])

\* C24: for every invoice, invoices_to_ledger_rows produces one expense row
\* for each line, with the line's base_amount as Debit (SC), one VAT row for
\* each line whose vat_amount is not zero, with that amount as Debit (SC),
\* none for a line whose vat_amount is zero, and one vendor credit row.
C24_RowsOfAnInvoice ==
    [][InvoiceDone =>
          /\ ItemsOf(RowsOfKind(NewRows, "expense"), "Debit (SC)")
                = [j \in 1..Len(DoneInvoice.lines) |->
                      Num(DoneInvoice.lines[j].base_amount)]
          /\ ItemsOf(RowsOfKind(NewRows, "vat"), "Debit (SC)")
                = [j \in 1..Len(TaxedLines(DoneInvoice)) |->
                      Num(TaxedLines(DoneInvoice)[j].vat_amount)]
          /\ Len(RowsOfKind(NewRows, "credit")) = 1]_vars

\* an invoice whose line has a base amount and VAT but a total_amount of 0
\* has given an expense row and a VAT row, and no credit row
C24_Witness ==
    /\ RowsReturned
    /\ Len(ledger_invoices) = 1
    /\ ledger_invoices[1].lines = <<Line(100, 10, 10, 0)>>
    /\ Len(ledger_rows) = 2
    /\ Kind(ledger_rows[1]) = "expense"
    /\ Kind(ledger_rows[2]) = "vat"

\* C25: each invoice passed to invoices_to_ledger_rows produces one or more
\* rows, one without lines and one whose lines all have a total_amount of 0
\* included.
C25_EachInvoiceGivesRows ==
    [][InvoiceDone => Len(ledger_rows') > Len(ledger_rows)]_vars

\* an invoice without lines has been through the loop and has given no row
C25_Witness ==
    /\ RowsReturned
    /\ Len(ledger_invoices) = 1
    /\ ledger_invoices[1].lines = <<>>
    /\ ledger_rows = <<>>

\* an invoice whose only line has a total_amount of 0 has given its expense row
C25_WitnessZeroTotal ==
    /\ RowsReturned
    /\ Len(ledger_invoices) = 1
    /\ ledger_invoices[1].lines = <<Line(100, 0, 0, 0)>>
    /\ Len(ledger_rows) = 1
    /\ Kind(ledger_rows[1]) = "expense"

\* C26: document_date is the default posting date: when it is provided it is
\* the Document Date of every row; the invoice_date of the invoice is used
\* for its rows only when document_date is not provided.
C26_DocumentDateFirst ==
    [][InvoiceDone =>
          \A i \in 1..Len(NewRows) :
              /\ Truthy(document_date) =>
                    Item(NewRows[i], "Document Date") = document_date
              /\ (document_date = None /\ DoneInvoice.invoice_date # <<>>) =>
                    Item(NewRows[i], "Document Date") = Str(DoneInvoice.invoice_date)]_vars

\* a document_date was given, and the rows of a dated invoice bear the date
\* of the invoice
C26_Witness ==
    /\ RowsReturned
    /\ Truthy(document_date)
    /\ Len(ledger_invoices) = 1
    /\ ledger_invoices[1].invoice_date # <<>>
    /\ ledger_rows # <<>>
    /\ \A i \in 1..Len(ledger_rows) :
          /\ Item(ledger_rows[i], "Document Date") = Str(ledger_invoices[1].invoice_date)
          /\ Item(ledger_rows[i], "Document Date") # document_date

\* a document_date was given, and the rows of an invoice without date bear it
C26_WitnessFallback ==
    /\ RowsReturned
    /\ Truthy(document_date)
    /\ Len(ledger_invoices) = 1
    /\ ledger_invoices[1].invoice_date = <<>>
    /\ ledger_rows # <<>>
    /\ \A i \in 1..Len(ledger_rows) :
          Item(ledger_rows[i], "Document Date") = document_date

\* the columns a row of a kind is given a value other than "" for
FilledColumns(kind) ==
    CASE kind = "expense" ->
            {"G/L Acct/BP Code", "G/L Acct/BP Name", "Control Acct", "Debit (SC)",
             "Remarks Template", "Document Date", "Project/Kh\\u1ebf \\u01b0\\u1edbc",
             "Tax Group", "Federal Tax ID", "Receipt Number", "Branch",
             "Seri H\\u0110", "T\\xecnh tr\\u1ea1ng k\\xea khai",
             "K\\u1ef3 k\\xea khai", "CFWId", "Invoice?", "\\u0110\\u1ea3o?",
             "M\\xe3 \\u0111\\u1ed1i t\\xe1c", "T\\xean \\u0111\\u1ed1i t\\xe1c",
             "\\u0110\\u1ecba ch\\u1ec9", "MST", "Di\\u1ec5n gi\\u1ea3i", "RemarksJE"}
      [] kind = "vat" ->
            {"G/L Acct/BP Code", "G/L Acct/BP Name", "Control Acct", "Debit (SC)",
             "Remarks Template", "Document Date", "Project/Kh\\u1ebf \\u01b0\\u1edbc",
             "Tax Group", "Federal Tax ID", "Receipt Number", "Branch",
             "Seri H\\u0110", "T\\xecnh tr\\u1ea1ng k\\xea khai",
             "K\\u1ef3 k\\xea khai", "CFWId", "Invoice?", "\\u0110\\u1ea3o?",
             "M\\xe3 \\u0111\\u1ed1i t\\xe1c", "T\\xean \\u0111\\u1ed1i t\\xe1c",
             "\\u0110\\u1ecba ch\\u1ec9", "MST", "Di\\u1ec5n gi\\u1ea3i", "RemarksJE"}
      [] kind = "credit" ->
            {"G/L Acct/BP Code", "G/L Acct/BP Name", "Control Acct", "Credit",
             "Remarks Template", "Document Date", "Project/Kh\\u1ebf \\u01b0\\u1edbc",
             "Federal Tax ID", "Receipt Number", "Seri H\\u0110",
             "T\\xecnh tr\\u1ea1ng k\\xea khai", "K\\u1ef3 k\\xea khai", "CFWId",
             "Invoice?", "\\u0110\\u1ea3o?", "M\\xe3 \\u0111\\u1ed1i t\\xe1c",
             "T\\xean \\u0111\\u1ed1i t\\xe1c", "\\u0110\\u1ecba ch\\u1ec9", "MST",
             "Di\\u1ec5n gi\\u1ea3i", "RemarksJE"}

\* the tax group of each line of a sequence of lines: that of its vat_rate
\* in tax_group_map, "" for a rate the map does not have
TaxGroups(lines) ==
    [j \in 1..Len(lines) |-> Str(dict_get(config.tax_group_map, lines[j].vat_rate, <<>>))]

\* C27: every row, expense, VAT and credit row alike, has the 43 columns of
\* the template, in the order of the template; every column holds a str or
\* a number, and a column the kind of row does not fill holds ""; the Tax
\* Group of the rows of a line whose vat_rate tax_group_map does not have
\* is "".
C27_TemplateColumns ==
    [][InvoiceDone =>
          /\ \A i \in 1..Len(NewRows) :
                /\ Keys(NewRows[i]) = columns
                /\ Len(Keys(NewRows[i])) = 43
                /\ Kind(NewRows[i]) \in {"expense", "vat", "credit"}
                /\ \A c \in 1..Len(columns) :
                      /\ NewRows[i][c][2].type \in {"str", "float"}
                      /\ columns[c] \notin FilledColumns(Kind(NewRows[i])) =>
                            NewRows[i][c][2] = Str(<<>>)
          /\ \A c, d \in 1..Len(columns) : c # d => columns[c] # columns[d]
          /\ ItemsOf(RowsOfKind(NewRows, "expense"), "Tax Group")
                = TaxGroups(DoneInvoice.lines)
          /\ ItemsOf(RowsOfKind(NewRows, "vat"), "Tax Group")
                = TaxGroups(TaxedLines(DoneInvoice))
          /\ \A j \in 1..Len(DoneInvoice.lines) :
                DoneInvoice.lines[j].vat_rate \notin DOMAIN config.tax_group_map =>
                    ItemsOf(RowsOfKind(NewRows, "expense"), "Tax Group")[j] = Str(<<>>)]_vars

\* the three kinds of rows have been returned, among them the rows of a line
\* at 8%, a rate tax_group_map does not have, with "" as Tax Group
C27_Witness ==
    /\ RowsReturned
    /\ Len(ledger_invoices) = 1
    /\ ledger_invoices[1].lines = <<Line(100, 8, 8, 108)>>
    /\ Len(ledger_rows) = 3
    /\ Kind(ledger_rows[1]) = "expense"
    /\ Kind(ledger_rows[2]) = "vat"
    /\ Kind(ledger_rows[3]) = "credit"
    /\ Item(ledger_rows[1], "Tax Group") = Str(<<>>)
    /\ Item(ledger_rows[2], "Tax Group") = Str(<<>>)
    /\ \A i \in 1..3 : Keys(ledger_rows[i]) = columns

\* the kind and the amount of each row of a sequence of rows
Entries(rs) ==
    [i \in 1..Len(rs) |->
        [kind |-> Kind(rs[i]),
         amount |-> IF Kind(rs[i]) = "credit" THEN Item(rs[i], "Credit")
                    ELSE Item(rs[i], "Debit (SC)"),
         receipt |-> Item(rs[i], "Receipt Number")]]

\* the entries an invoice is to give, in order
EntriesOf(invoice) ==
    Concat([j \in 1..Len(invoice.lines) |->
               <<[kind |-> "expense", amount |-> Num(invoice.lines[j].base_amount),
                  receipt |-> Str(Strip(invoice.invoice_no))]>>
               \o (IF invoice.lines[j].vat_amount # 0
                   THEN <<[kind |-> "vat", amount |-> Num(invoice.lines[j].vat_amount),
                           receipt |-> Str(Strip(invoice.invoice_no))]>>
                   ELSE <<>>)])
    \o (IF TotalOf(invoice) # 0
        THEN <<[kind |-> "credit", amount |-> Num(TotalOf(invoice)),
                receipt |-> Str(Strip(invoice.invoice_no))]>>
        ELSE <<>>)

SlashMatch(t) ==
    IF call.parser = "viettel" THEN Search(Viettel_date_slash_pattern, t)
    ELSE Search(invoice_parsers_Viettel_date_slash_pattern, t)
WordMatch(t) ==
    IF call.parser = "viettel" THEN Search(Viettel_date_text_pattern, t)
    ELSE Search(invoice_parsers_Viettel_date_text_pattern, t)

\* the date the day, month and year of a match give: YYYY-MM-DD, or "" when
\* they name no day of the calendar
DateOfMatch(t, m) ==
    IF IsDate(DigitsValue(Group(t, m, 3)), DigitsValue(Group(t, m, 2)),
              DigitsValue(Group(t, m, 1)))
    THEN IsoFormat(DigitsValue(Group(t, m, 3)), DigitsValue(Group(t, m, 2)),
                   DigitsValue(Group(t, m, 1)))
    ELSE <<>>

\* C28: a Viettel parser turns to the word form of the date only when the
\* slash form has no match at all: the date is that of the first slash
\* match whenever there is one, and "" when that match names no day of the
\* calendar, whatever valid word-form date or later slash date the text has.
C28_WordFormOnlyWithoutSlashMatch ==
    (Parsed /\ call.parser \in ViettelParsers) =>
        /\ SlashMatch(Normalise(pdf_text)).ok =>
              call.invoice.invoice_date
                  = DateOfMatch(Normalise(pdf_text), SlashMatch(Normalise(pdf_text)))
        /\ (~SlashMatch(Normalise(pdf_text)).ok /\ WordMatch(Normalise(pdf_text)).ok) =>
              call.invoice.invoice_date
                  = DateOfMatch(Normalise(pdf_text), WordMatch(Normalise(pdf_text)))
        /\ (~SlashMatch(Normalise(pdf_text)).ok /\ ~WordMatch(Normalise(pdf_text)).ok) =>
              call.invoice.invoice_date = <<>>

\* 31/02/2024 in the slash form before a valid date in the word form: no date
C28_Witness ==
    /\ call.parser = "viettel"
    /\ pdf_text = VTH_bad_slash
    /\ SlashMatch(Normalise(pdf_text)).ok
    /\ Group(Normalise(pdf_text), SlashMatch(Normalise(pdf_text)), 2) = <<"0", "2">>
    /\ WordMatch(Normalise(pdf_text)).ok
    /\ DateOfMatch(Normalise(pdf_text), WordMatch(Normalise(pdf_text))) # <<>>
    /\ call.invoice.invoice_date = <<>>

\* 31/02/2024 before a valid date in the slash form: no date, in the parser
\* of invoice_parsers as well
C28_WitnessLaterSlash ==
    /\ call.parser = "invoice_parsers.viettel"
    /\ pdf_text = VTH_two_slashes
    /\ Len(FindIter(invoice_parsers_Viettel_date_slash_pattern, Normalise(pdf_text))) = 2
    /\ call.invoice.invoice_date = <<>>

\* a valid date in the word form before one in the slash form: the slash
\* form gives the date
C28_WitnessSlashWins ==
    /\ call.parser = "viettel"
    /\ pdf_text = VTH_text_then_slash
    /\ WordMatch(Normalise(pdf_text)).ok
    /\ call.invoice.invoice_date = <<"2", "0", "2", "4", "-", "1", "2", "-", "0", "6">>

\* no slash form at all: the word form gives the date
C28_WitnessWordForm ==
    /\ call.parser = "viettel"
    /\ pdf_text = VTH_text
    /\ ~SlashMatch(Normalise(pdf_text)).ok
    /\ call.invoice.invoice_date = <<"2", "0", "2", "4", "-", "1", "2", "-", "0", "5">>

(***************************************************************************)
(* Claims about the temporary files of the batch loop.                     *)
(***************************************************************************)
\* C30: in the batch loop the temporary PDF written for an uploaded document
\* is deleted before the next document is taken up, whether parsing it
\* succeeded or raised: while a document is parsed the only temporary file
\* is its own, between two documents and after the loop there is none.
C30_TemporaryFilesDeleted ==
    /\ pc \in {"try", "finally"} => tmp_files = {file_index}
    /\ pc \in {"idle", "button", "for", "returned", "transform"} => tmp_files = {}

\* the loop has ended after a document that was parsed and one whose
\* parsing raised, and no temporary file is left
C30_Witness ==
    /\ HandlerEnded
    /\ Len(uploaded_files) >= 2
    /\ \E i \in 1..Len(uploaded_files) : uploaded_files[i].opens
    /\ \E i \in 1..Len(uploaded_files) : ~uploaded_files[i].opens
    /\ Len(ErrorReports) >= 1
    /\ tmp_files = {}

\* the next document is about to be taken up after one whose parsing
\* raised, and the temporary file of that one is gone
C30_WitnessAfterFailure ==
    /\ pc = "for"
    /\ file_index = 2
    /\ file_index <= Len(uploaded_files)
    /\ ~uploaded_files[1].opens
    /\ tmp_files = {}

====
